---- MODULE Spec2Model ----
(***************************************************************************)
(* A model of file_query (hfile): the lazy file-entity cache (file.rs,     *)
(* uid.rs, utils.rs) and the table layout engine (print.rs, print/dir.rs). *)
(*                                                                         *)
(* The specifications of the module:                                       *)
(*   LayoutSpec   - calc_table_column_widths, one shrink pass per step     *)
(*   NestedSpec   - add_nested_contents over lists of children counts      *)
(*   Spec         - the entry store and the operations on it               *)
(*   LibSpec      - the store driven through the exported functions        *)
(*   RowSpec      - print_row over rows of one or two cells                *)
(*   FileViewSpec - the text view of print_file: layout, then the rows     *)
(*   ExampleSpec  - the store started in a directory of three files        *)
(*   SyntheticSpec - the store operations on the entries without a file    *)
(*   HexSpec      - the start offset of the hex view of print_file         *)
(*   AnyDirSpec   - the store started in any directory, then climbed       *)
(***************************************************************************)
EXTENDS Integers, Sequences, FiniteSets, TLC

VARIABLES
    \* ---- calc_table_column_widths (print.rs:1024) ----
    lpc,            \* position: "start", "shrink", "expand", "result", "done", "panicked"
    table,          \* table_contents, every cell given by its chars().count()
    max_width,      \* Option<usize>
    min_width,      \* Option<usize>
    widths,         \* max_column_widths
    diff,           \* diff of the shrink loop
    total,          \* max_total_width
    shrunk,         \* the shrink branch (width < max_total_width) was entered
    expanded,       \* the min_width branch was entered
    lresult,        \* the returned HashMap<usize, Vec<usize>>
    \* ---- add_nested_contents (print/dir.rs:388) ----
    npc,            \* "start" or "done"
    nnums,          \* get_children_num(show_hidden_files) of every top-level row
    nmax_row,       \* config.max_row
    nresult,        \* the returned rows with their nested levels
    \* ---- the entry store (lib.rs:30-32, file.rs, utils.rs) ----
    spc,            \* "init" before main registered the current directory, then "running"
    files,          \* FILES: HashMap<Uid, File>
    paths,          \* PATHS: HashMap<Uid, Path>
    rand,           \* the next value drawn by rand::random
    reads,          \* number of fs::read_dir calls made for each uid
    panicked,       \* a panic ended the process
    read_err,       \* result of fs::read_dir on the fallible directories
    meta_err,       \* result of metadata() on the fallible entries
    \* ---- print_row (print.rs:842) ----
    rpc,            \* "start", "done" or "panicked"
    row_contents,   \* contents: the cells of the row
    row_widths,     \* widths: the column widths of the row
    alignments,     \* alignments of the cells
    printed,        \* the cells written to the terminal so far
    \* ---- the hex view of print_file (print/file.rs:304) ----
    hpc,            \* "start" or "done"
    hex_offset,     \* config.offset: the byte offset asked for
    hex_size,       \* f_i.size
    hex_start       \* offset: where read_at starts

layoutVars == <<lpc, table, max_width, min_width, widths, diff, total,
                shrunk, expanded, lresult>>

nestedVars == <<npc, nnums, nmax_row, nresult>>

storeVars == <<spc, files, paths, rand, reads, panicked, read_err, meta_err>>

rowVars == <<rpc, row_contents, row_widths, alignments, printed>>

hexVars == <<hpc, hex_offset, hex_size, hex_start>>

vars == <<layoutVars, nestedVars, storeVars, rowVars, hexVars>>

-----------------------------------------------------------------------------
(* Generic helpers *)

None == -1      \* Option::None for Option<usize>

IsSome(x) == x # None

Max(a, b) == IF a >= b THEN a ELSE b

Min(a, b) == IF a <= b THEN a ELSE b

RECURSIVE SumSeq(_)
SumSeq(s) == IF s = <<>> THEN 0 ELSE Head(s) + SumSeq(Tail(s))

Prefix(s, n) == SubSeq(s, 1, n)

-----------------------------------------------------------------------------
(* print.rs: calc_table_column_widths *)

COLUMN_MARGIN == 2

ShrinkFloor == 16

\* max_column_widths.iter().sum() + column_margin * (len + 1)
TotalWidth(ws, margin) == SumSeq(ws) + margin * (Len(ws) + 1)

\* rows 1.. folded into max_column_widths (print.rs:1038-1053)
RECURSIVE FoldRows(_, _)
FoldRows(ws, rows) ==
    IF rows = <<>> THEN ws
    ELSE LET row == Head(rows)
             upto == IF Len(row) = Len(ws) THEN Len(row) ELSE Len(row) - 1
             ws2 == [i \in 1..Len(ws) |->
                        IF i <= upto THEN Max(ws[i], row[i]) ELSE ws[i]]
         IN FoldRows(ws2, Tail(rows))

RawWidths(t) == FoldRows(t[1], Tail(t))

\* one execution of the `for w in max_column_widths.iter_mut()` loop
\* (print.rs:1064-1070), starting at column i
RECURSIVE ShrinkPassFrom(_, _, _, _)
ShrinkPassFrom(ws, d, i, did) ==
    IF i > Len(ws) THEN [widths |-> ws, diff |-> d, did_something |-> did]
    ELSE IF ws[i] > ShrinkFloor /\ d > 0
         THEN ShrinkPassFrom([ws EXCEPT ![i] = @ - 1], d - 1, i + 1, TRUE)
         ELSE ShrinkPassFrom(ws, d, i + 1, did)

\* a pass that shrinks every column that is not empty
RECURSIVE ShrinkAnyColumnFrom(_, _, _, _)
ShrinkAnyColumnFrom(ws, d, i, did) ==
    IF i > Len(ws) THEN [widths |-> ws, diff |-> d, did_something |-> did]
    ELSE IF ws[i] > 0 /\ d > 0
         THEN ShrinkAnyColumnFrom([ws EXCEPT ![i] = @ - 1], d - 1, i + 1, TRUE)
         ELSE ShrinkAnyColumnFrom(ws, d, i + 1, did)

ShrinkPassAnyColumn(ws, d) == ShrinkAnyColumnFrom(ws, d, 1, FALSE)

\* a pass that reports progress although nothing was shrunk
ShrinkPassAlwaysProgress(ws, d) ==
    [ShrinkPassFrom(ws, d, 1, FALSE) EXCEPT !.did_something = TRUE]

ShrinkPass(ws, d) == ShrinkPassFrom(ws, d, 1, FALSE)

\* the whole `while diff > 0` loop (print.rs:1061-1076)
RECURSIVE ShrinkLoop(_, _)
ShrinkLoop(ws, d) ==
    IF d > 0
    THEN LET p == ShrinkPass(ws, d)
         IN IF p.did_something THEN ShrinkLoop(p.widths, p.diff) ELSE p.widths
    ELSE ws

\* a division that rounds down, without the extra column
ExpandDeltaRoundedDown(width, max_total, ncols) == (width - max_total) \div ncols

\* an exact ceiling division of the deficit
ExpandDeltaCeiling(width, max_total, ncols) ==
    (width - max_total + ncols - 1) \div ncols

\* print.rs:1084
\* every column grows by the whole deficit and one more
ExpandDeltaWholeDeficit(width, max_total, ncols) == (width - max_total) + 1

ExpandDelta(width, max_total, ncols) == (width - max_total) \div ncols + 1

\* print.rs:1082-1092
Expand(ws, width, margin) ==
    LET d == ExpandDelta(width, TotalWidth(ws, margin), Len(ws))
    IN [i \in 1..Len(ws) |-> ws[i] + d]

\* a vector whose last entry takes the spanned columns without the margins
\* between them
WidthVectorWithoutSpannedMargins(ws, max_total, col_count, margin) ==
    Append(Prefix(ws, col_count - 1),
           SumSeq(SubSeq(ws, col_count, Len(ws))))

\* print.rs:1097-1105, the vector for rows of col_count cells
WidthVector(ws, max_total, col_count, margin) ==
    LET firsts == Prefix(ws, col_count - 1)
    IN Append(firsts, max_total - SumSeq(firsts) - margin * (col_count + 1))

ColCounts(t) == {Len(t[r]) : r \in 1..Len(t)}

\* the whole function (print.rs:1024-1114) for callers
CalcTableColumnWidths(t, maxw, minw, margin) ==
    LET raw == RawWidths(t)
        t0 == TotalWidth(raw, margin)
        ws1 == IF IsSome(maxw) /\ maxw < t0 THEN ShrinkLoop(raw, t0 - maxw) ELSE raw
        t1 == TotalWidth(ws1, margin)
        ws2 == IF IsSome(minw) /\ minw > t1 THEN Expand(ws1, minw, margin) ELSE ws1
        t2 == TotalWidth(ws2, margin)
    IN [n \in ColCounts(t) |-> WidthVector(ws2, t2, n, margin)]

-----------------------------------------------------------------------------
(* print/dir.rs: add_nested_contents, over the children counts of the rows *)

NestedSlack == 4

\* a reservation that serves only rows with more than one child
RECURSIVE ReserveFirstRowsForSeveralChildren(_, _, _, _)
ReserveFirstRowsForSeveralChildren(nums, i, remaining, shows) ==
    IF i > Len(nums) THEN [shows |-> shows, remaining |-> remaining]
    ELSE IF nums[i] > 1 /\ remaining > 0
         THEN ReserveFirstRowsForSeveralChildren(nums, i + 1, remaining - 1,
                                                 Append(shows, 1))
         ELSE ReserveFirstRowsForSeveralChildren(nums, i + 1, remaining,
                                                 Append(shows, 0))

\* print/dir.rs:395-406: one nested row for every row that has children,
\* while rows remain
RECURSIVE ReserveFirstRows(_, _, _, _)
ReserveFirstRows(nums, i, remaining, shows) ==
    IF i > Len(nums) THEN [shows |-> shows, remaining |-> remaining]
    ELSE IF nums[i] > 0 /\ remaining > 0
         THEN ReserveFirstRows(nums, i + 1, remaining - 1, Append(shows, 1))
         ELSE ReserveFirstRows(nums, i + 1, remaining, Append(shows, 0))

\* a pass that visits the rows from the last to the first
RECURSIVE NestedPassFromLast(_, _, _, _, _)
NestedPassFromLast(nums, shows, i, remaining, added) ==
    IF i > Len(nums)
    THEN [shows |-> shows, remaining |-> remaining, added_something |-> added]
    ELSE IF remaining > 0 /\ shows[Len(nums) + 1 - i] < nums[Len(nums) + 1 - i]
         THEN NestedPassFromLast(nums, [shows EXCEPT ![Len(nums) + 1 - i] = @ + 1],
                                 i + 1, remaining - 1, TRUE)
         ELSE NestedPassFromLast(nums, shows, i + 1, remaining, added)

\* print/dir.rs:415-424: one pass of the `for content in contents` loop
RECURSIVE NestedPassFrom(_, _, _, _, _)
NestedPassFrom(nums, shows, i, remaining, added) ==
    IF i > Len(nums)
    THEN [shows |-> shows, remaining |-> remaining, added_something |-> added]
    ELSE IF remaining > 0 /\ shows[i] < nums[i]
         THEN NestedPassFrom(nums, [shows EXCEPT ![i] = @ + 1], i + 1,
                             remaining - 1, TRUE)
         ELSE NestedPassFrom(nums, shows, i + 1, remaining, added)

\* print/dir.rs:408-429
RECURSIVE NestedLoop(_, _, _)
NestedLoop(nums, shows, remaining) ==
    IF remaining < NestedSlack
    THEN [shows |-> shows, remaining |-> remaining]
    ELSE LET p == NestedPassFrom(nums, shows, 1, remaining, FALSE)
         IN IF p.added_something
            THEN NestedLoop(nums, p.shows, p.remaining)
            ELSE [shows |-> p.shows, remaining |-> p.remaining]

\* print/dir.rs:392-429: number_of_children_to_show
NumberOfChildrenToShow(nums, max_row) ==
    LET first == ReserveFirstRows(nums, 1, max_row - Len(nums), <<>>)
    IN NestedLoop(nums, first.shows, first.remaining)

\* print/dir.rs:436-455: the rows of top-level row i; a row is the index of
\* its top-level row, its nested level, and for a nested row either the
\* position of the child in the sorted children or the truncated count
NestedRowsOf(i, num, show) ==
    <<[top |-> i, level |-> 0, child |-> 0, truncated |-> 0]>>
    \o (IF show > 0
        THEN [k \in 1..show |-> [top |-> i, level |-> 1, child |-> k, truncated |-> 0]]
             \o (IF num > show
                 THEN <<[top |-> i, level |-> 1, child |-> 0, truncated |-> num - show]>>
                 ELSE <<>>)
        ELSE <<>>)

RECURSIVE NestedRowsFrom(_, _, _)
NestedRowsFrom(nums, shows, i) ==
    IF i > Len(nums) THEN <<>>
    ELSE NestedRowsOf(i, nums[i], shows[i]) \o NestedRowsFrom(nums, shows, i + 1)

\* print/dir.rs:388-463
AddNestedContents(nums, max_row) ==
    LET alloc == NumberOfChildrenToShow(nums, max_row)
    IN [shows |-> alloc.shows,
        remaining |-> alloc.remaining,
        rows |-> NestedRowsFrom(nums, alloc.shows, 1)]

-----------------------------------------------------------------------------
(* The operating system: a fixed directory tree.  Paths and names are      *)
(* strings; read_dir returns the names in the order of OsEntries.          *)

OsDirs == {"/", "/h", "/h/a", "/e"}

OsFiles == {"/h/b", "/h/.c", "/h/a/x", "/e/p", "/e/q", "/e/r"}

OsSymlinks == {"/h/a/l"}

OsPaths == OsDirs \cup OsFiles \cup OsSymlinks

OsEntries(path) ==
    CASE path = "/"      -> <<"h", "e">>
      [] path = "/h"     -> <<"b", ".c", "a">>
      [] path = "/h/a"   -> <<"x", "l">>
      [] path = "/e"     -> <<"p", "q", "r">>
      [] OTHER           -> <<>>

\* metadata.len()
OsSize(path) ==
    CASE path = "/h/b"     -> 10
      [] path = "/h/.c"    -> 4
      [] path = "/h/a/x"   -> 5
      [] path = "/h/a/l"   -> 3
      [] path = "/e/p"     -> 10
      [] path = "/e/q"     -> 2048
      [] path = "/e/r"     -> 5000000
      [] OTHER             -> 0

OsFileType(path) ==
    IF path \in OsSymlinks THEN "Symlink"
    ELSE IF path \in OsDirs THEN "Dir"
    ELSE "File"

\* the directories whose read_dir may fail, the entries whose metadata may
\* fail, and the results an OS call can have
FallibleDirs == {"/h/a"}

FallibleEntries == {"/h/b"}

IoResults == {"Ok", "PermissionDenied", "NotFound"}

-----------------------------------------------------------------------------
(* std::path on strings *)

Chr(s, i) == SubSeq(s, i, i)

StartsWith(s, c) == Len(s) >= 1 /\ Chr(s, 1) = c

\* PathBuf::push (utils.rs:45): an absolute component replaces the path,
\* otherwise it is appended after a separator
PathPush(parent, child) ==
    IF StartsWith(child, "/") THEN child
    ELSE IF parent = "" THEN child
    ELSE IF Chr(parent, Len(parent)) = "/" THEN parent \o child
    ELSE parent \o "/" \o child

\* the position of the last "/" of s, 0 if there is none
RECURSIVE LastSlashFrom(_, _)
LastSlashFrom(s, i) ==
    IF i = 0 THEN 0
    ELSE IF Chr(s, i) = "/" THEN i
    ELSE LastSlashFrom(s, i - 1)

LastSlash(s) == LastSlashFrom(s, Len(s))

\* Path::file_name (file.rs:46): None for the root
PathFileName(path) ==
    IF path = "/" \/ path = "" THEN <<>>
    ELSE <<SubSeq(path, LastSlash(path) + 1, Len(path))>>

\* Path::parent (file.rs:355): None for the root and the empty path
PathParent(path) ==
    IF path = "/" \/ path = "" THEN <<>>
    ELSE IF LastSlash(path) = 0 THEN <<"">>
    ELSE IF LastSlash(path) = 1 THEN <<"/">>
    ELSE <<SubSeq(path, 1, LastSlash(path) - 1)>>

-----------------------------------------------------------------------------
(* uid.rs.  A Uid is its tag (bits 124..127) and its low 124 bits.  An     *)
(* Option is a sequence: <<>> is None, <<x>> is Some(x).                   *)

NormalUid(v) == [tag |-> 0, val |-> v]

ErrorUid(v) == [tag |-> 1, val |-> v]

TruncatedRowsUid(n) == [tag |-> 2, val |-> n]

MessageUid(v) == [tag |-> 3, val |-> v]

BASE == NormalUid(0)

ROOT == NormalUid(1)

\* Uid::is_special (uid.rs:27)
IsSpecialUid(uid) == uid.tag # 0

Some(x) == <<x>>

-----------------------------------------------------------------------------
(* file.rs, utils.rs.  The store is the pair of maps FILES and PATHS; the  *)
(* operations below take the store st and return it changed.  st.rand is   *)
(* the next value of rand::random (every draw is a fresh value), st.reads  *)
(* counts the read_dir calls made for each uid, st.panicked is set by a    *)
(* panic, after which nothing else runs.  The maps stay within the         *)
(* capacity reserved at main.rs:12-13: no entry moves, and a reference     *)
(* taken through get_file_by_uid reads what the map holds.                 *)

\* File::dummy (file.rs:398)
\* a dummy that is a directory registered under the base directory
DummyFileUnderBase(uid) ==
    [parent |-> <<[tag |-> 0, val |-> 0]>>, uid |-> uid, name |-> "", size |-> 0,
     recursive_size |-> <<>>, file_type |-> "Dir", children |-> <<>>]

DummyFile(uid) ==
    [parent |-> <<>>, uid |-> uid, name |-> "", size |-> 0,
     recursive_size |-> <<>>, file_type |-> "File", children |-> <<>>]

Panic(st) == [st EXCEPT !.panicked = TRUE]

\* files.insert (HashMap::insert replaces the value of an existing key)
InsertFile(st, f) ==
    [st EXCEPT !.files = [u \in DOMAIN @ \cup {f.uid} |->
                            IF u = f.uid THEN f ELSE @[u]]]

InsertPath(st, uid, path) ==
    [st EXCEPT !.paths = [u \in DOMAIN @ \cup {uid} |->
                            IF u = uid THEN path ELSE @[u]]]

\* File::is_special_file, is_dir, is_file, is_hidden_file (file.rs:273-289)
IsSpecialFile(f) == IsSpecialUid(f.uid)

IsDir(f) == ~IsSpecialFile(f) /\ f.file_type = "Dir"

IsFile(f) == ~IsSpecialFile(f) /\ f.file_type = "File"

IsHiddenFile(f) == ~IsSpecialFile(f) /\ StartsWith(f.name, ".")

\* File::from_io_error (file.rs:174): panics on every kind of error but
\* PermissionDenied
FromIoError(st, kind) ==
    IF kind # "PermissionDenied" THEN [st |-> Panic(st), ret |-> ErrorUid(st.rand)]
    ELSE LET uid == ErrorUid(st.rand)
             f == [DummyFile(uid) EXCEPT !.name = "<<Error: Permission Denied>>"]
         IN [st |-> InsertFile([st EXCEPT !.rand = @ + 1], f), ret |-> uid]

\* File::from_error_msg (file.rs:196)
FromErrorMsg(st, e) ==
    LET uid == ErrorUid(st.rand)
        f == [DummyFile(uid) EXCEPT
                 !.name = IF e = "" THEN "<<Error>>" ELSE "<<Error: " \o e \o ">>"]
    IN [st |-> InsertFile([st EXCEPT !.rand = @ + 1], f), ret |-> uid]

\* path.metadata() / dir_entry.metadata() of the operating system
OsMetadata(st, path) ==
    IF path \notin OsPaths THEN "NotFound"
    ELSE IF path \in DOMAIN st.meta_err THEN st.meta_err[path]
    ELSE "Ok"

\* fs::read_dir of the operating system
OsReadDir(st, path) ==
    IF path \notin OsPaths THEN "NotFound"
    ELSE IF path \notin OsDirs THEN "NotADirectory"
    ELSE IF path \in DOMAIN st.read_err THEN st.read_err[path]
    ELSE "Ok"

\* File::new_from_path_buf (file.rs:45); uid is an Option<Uid>
NewFromPathBuf(st, path, uid, parent) ==
    LET file_name == PathFileName(path)
    IN IF file_name = <<>> /\ uid # Some(ROOT) THEN FromErrorMsg(st, "")
       ELSE IF OsMetadata(st, path) # "Ok" THEN FromIoError(st, OsMetadata(st, path))
       ELSE LET name == IF file_name = <<>> THEN "" ELSE file_name[1]
                fresh == uid = <<>>
                result_uid == IF fresh THEN NormalUid(st.rand) ELSE uid[1]
                file_type == OsFileType(path)
                result == [parent |-> parent, uid |-> result_uid, name |-> name,
                           size |-> OsSize(path),
                           recursive_size |-> IF file_type = "File"
                                              THEN Some(OsSize(path)) ELSE <<>>,
                           file_type |-> file_type, children |-> <<>>]
                st1 == IF fresh THEN [st EXCEPT !.rand = @ + 1] ELSE st
            IN [st |-> InsertPath(InsertFile(st1, result), result_uid, path),
                ret |-> result_uid]

\* File::new_from_dir_path (file.rs:108)
NewFromDirPath(st, path, uid, parent) == NewFromPathBuf(st, path, uid, parent)

\* DirEntry::path of the entry `name` that read_dir(dir_path) returned
DirEntryPath(dir_path, name) ==
    IF Chr(dir_path, Len(dir_path)) = "/" THEN dir_path \o name
    ELSE dir_path \o "/" \o name

\* File::new_from_dir_entry (file.rs:115) for the entry `name` of the
\* directory at dir_path
NewFromDirEntry(st, dir_path, name, parent) ==
    LET path == DirEntryPath(dir_path, name)
    IN IF OsMetadata(st, path) # "Ok" THEN FromIoError(st, OsMetadata(st, path))
       ELSE LET result_uid == NormalUid(st.rand)
                file_type == OsFileType(path)
                result == [parent |-> parent, uid |-> result_uid, name |-> name,
                           size |-> OsSize(path),
                           recursive_size |-> IF file_type = "File"
                                              THEN Some(OsSize(path)) ELSE <<>>,
                           file_type |-> file_type, children |-> <<>>]
            IN [st |-> InsertFile([st EXCEPT !.rand = @ + 1], result),
                ret |-> result_uid]

\* utils.rs: get_file_by_uid
GetFileByUid(st, uid) == IF uid \in DOMAIN st.files THEN Some(st.files[uid]) ELSE <<>>

\* utils.rs: get_path_by_uid (12-36) and get_path_by_file (38-52).
\* ret is the Option<Path>; walked counts the get_path_by_file calls.
RECURSIVE GetPathByUid(_, _)

\* get_path_by_uid without paths.insert
JoinParentPathUncached(p, uid, name) ==
    IF p.st.panicked \/ p.ret = <<>>
    THEN [st |-> Panic(p.st), ret |-> <<>>, walked |-> p.walked + 1]
    ELSE [st |-> p.st, ret |-> Some(PathPush(p.ret[1], name)), walked |-> p.walked + 1]

\* utils.rs:40-47: the parent's path p, unwrapped and joined with the name
JoinParentPath(p, uid, name) ==
    IF p.st.panicked \/ p.ret = <<>>
    THEN [st |-> Panic(p.st), ret |-> <<>>, walked |-> p.walked + 1]
    ELSE [st |-> InsertPath(p.st, uid, PathPush(p.ret[1], name)),
          ret |-> Some(PathPush(p.ret[1], name)),
          walked |-> p.walked + 1]

\* get_path_by_uid with an empty path inserted for an unknown id
GetPathByUidDefaulting(st, uid) ==
    IF uid \in DOMAIN st.paths THEN [st |-> st, ret |-> Some(st.paths[uid]), walked |-> 0]
    ELSE IF uid \notin DOMAIN st.files
    THEN [st |-> InsertPath(st, uid, ""), ret |-> Some(""), walked |-> 0]
    ELSE IF st.files[uid].parent # <<>>
    THEN JoinParentPath(GetPathByUid(st, st.files[uid].parent[1]), uid,
                        st.files[uid].name)
    ELSE IF st.files[uid].uid = ROOT
    THEN [st |-> InsertPath(st, uid, "/"), ret |-> Some("/"), walked |-> 1]
    ELSE [st |-> st, ret |-> <<>>, walked |-> 1]

GetPathByUid(st, uid) ==
    IF uid \in DOMAIN st.paths THEN [st |-> st, ret |-> Some(st.paths[uid]), walked |-> 0]
    ELSE IF uid \notin DOMAIN st.files THEN [st |-> st, ret |-> <<>>, walked |-> 0]
    ELSE IF st.files[uid].parent # <<>>
    THEN JoinParentPath(GetPathByUid(st, st.files[uid].parent[1]), uid,
                        st.files[uid].name)
    ELSE IF st.files[uid].uid = ROOT
    THEN [st |-> InsertPath(st, uid, "/"), ret |-> Some("/"), walked |-> 1]
    ELSE [st |-> st, ret |-> <<>>, walked |-> 1]

\* the `for entry in entries` loop of init_children (file.rs:254-263)
RECURSIVE ReadEntries(_, _, _, _, _)

PushEntry(e, dir_path, self_uid, entries, result) ==
    ReadEntries(e.st, dir_path, self_uid, entries, Append(result, e.ret))

ReadEntries(st, dir_path, self_uid, entries, result) ==
    IF entries = <<>> \/ st.panicked THEN [st |-> st, ret |-> result]
    ELSE PushEntry(NewFromDirEntry(st, dir_path, Head(entries), Some(self_uid)),
                   dir_path, self_uid, Tail(entries), result)

SetChildren(st, uid, list) == [st EXCEPT !.files[uid].children = Some(list)]

CountRead(st, uid) ==
    [st EXCEPT !.reads = [u \in DOMAIN @ \cup {uid} |->
                            IF u \in DOMAIN @ THEN @[u] + (IF u = uid THEN 1 ELSE 0)
                            ELSE 1]]

\* file.rs:265: self.children = Some(result)
StoreChildren(r, uid) ==
    IF r.st.panicked THEN r.st ELSE SetChildren(r.st, uid, r.ret)

\* file.rs:268: self.children = Some(vec![File::from_io_error(e)])
StoreErrorChild(e, uid) ==
    IF e.st.panicked THEN e.st ELSE SetChildren(e.st, uid, <<e.ret>>)

\* file.rs:250-270: the directory read
ReadChildren(st, uid, self_path) ==
    IF OsReadDir(st, self_path) = "Ok"
    THEN StoreChildren(ReadEntries(st, self_path, uid, OsEntries(self_path), <<>>), uid)
    ELSE StoreErrorChild(FromIoError(st, OsReadDir(st, self_path)), uid)

\* file.rs:248: get_path_by_uid(self.uid).unwrap()
ReadChildrenAt(p, uid) ==
    IF p.st.panicked \/ p.ret = <<>> THEN Panic(p.st)
    ELSE ReadChildren(CountRead(p.st, uid), uid, p.ret[1])

\* init_children without the early return on children.is_some()
InitChildrenAlways(st, uid) ==
    IF st.panicked \/ ~IsDir(st.files[uid]) THEN st
    ELSE ReadChildrenAt(GetPathByUid(st, uid), uid)

\* File::init_children (file.rs:243)
InitChildren(st, uid) ==
    IF st.panicked \/ st.files[uid].children # <<>> \/ ~IsDir(st.files[uid]) THEN st
    ELSE ReadChildrenAt(GetPathByUid(st, uid), uid)

\* a filter that keeps every child
KeepAll(st, list) == list

\* the children that are not hidden (file.rs:320-324)
NotHidden(st, list) ==
    LET Shown(u) == ~IsHiddenFile(st.files[u]) IN SelectSeq(list, Shown)

\* file.rs:317-325 and 330-340: the count over the initialised children
CountChildren(st, uid, include_hidden_files) ==
    IF st.panicked THEN [st |-> st, ret |-> 0]
    ELSE [st |-> st,
          ret |-> IF include_hidden_files THEN Len(st.files[uid].children[1])
                  ELSE Len(NotHidden(st, st.files[uid].children[1]))]

\* File::get_children_num (file.rs:314)
GetChildrenNum(st, uid, include_hidden_files) ==
    IF st.panicked \/ ~IsDir(st.files[uid]) THEN [st |-> st, ret |-> 0]
    ELSE CountChildren(IF st.files[uid].children = <<>> THEN InitChildren(st, uid) ELSE st,
                       uid, include_hidden_files)

\* file.rs:292-310: the list built after get_children_num returned n
ChildrenAfterCount(n, uid, show_hidden_files) ==
    IF n.st.panicked \/ n.ret = 0 THEN [st |-> n.st, ret |-> <<>>]
    ELSE [st |-> n.st,
          ret |-> IF show_hidden_files THEN n.st.files[uid].children[1]
                  ELSE NotHidden(n.st, n.st.files[uid].children[1])]

\* File::get_children (file.rs:291); ret is the list of the uids of the
\* returned &File
GetChildren(st, uid, show_hidden_files) ==
    ChildrenAfterCount(GetChildrenNum(st, uid, show_hidden_files), uid, show_hidden_files)

\* File::get_recursive_size (file.rs:379); calls counts the calls of
\* get_recursive_size made, this one included
RECURSIVE GetRecursiveSize(_, _)
RECURSIVE SumChildren(_, _, _, _)

\* file.rs:386: sum += child.get_recursive_size()
AddChildSize(r, list, sum, calls) ==
    SumChildren(r.st, list, sum + r.ret, calls + r.calls)

\* file.rs:385-387
SumChildren(st, list, sum, calls) ==
    IF list = <<>> \/ st.panicked THEN [st |-> st, ret |-> sum, calls |-> calls]
    ELSE AddChildSize(GetRecursiveSize(st, Head(list)), Tail(list), sum, calls)

\* file.rs:390: get_file_by_uid(self.uid).unwrap().recursive_size = Some(sum)
MemoizeSize(s, uid) ==
    IF s.st.panicked THEN s
    ELSE [st |-> [s.st EXCEPT !.files[uid].recursive_size = Some(s.ret)],
          ret |-> s.ret, calls |-> s.calls]

\* file.rs:383-392 over the children c
SizeOfChildren(c, uid) == MemoizeSize(SumChildren(c.st, c.ret, 0, 1), uid)

\* get_recursive_size summing over the children that are not hidden
GetRecursiveSizeShownOnly(st, uid) ==
    IF st.panicked THEN [st |-> st, ret |-> 0, calls |-> 0]
    ELSE IF st.files[uid].recursive_size # <<>>
    THEN [st |-> st, ret |-> st.files[uid].recursive_size[1], calls |-> 1]
    ELSE SizeOfChildren(GetChildren(st, uid, FALSE), uid)

\* get_recursive_size without the look at the stored value
GetRecursiveSizeUnmemoized(st, uid) ==
    IF st.panicked THEN [st |-> st, ret |-> 0, calls |-> 0]
    ELSE SizeOfChildren(GetChildren(st, uid, TRUE), uid)

GetRecursiveSize(st, uid) ==
    IF st.panicked THEN [st |-> st, ret |-> 0, calls |-> 0]
    ELSE IF st.files[uid].recursive_size # <<>>
    THEN [st |-> st, ret |-> st.files[uid].recursive_size[1], calls |-> 1]
    ELSE SizeOfChildren(GetChildren(st, uid, TRUE), uid)

\* file.rs:367: get_file_by_uid(self.uid).unwrap().parent = Some(parent_uid)
\* the parent is registered but entry.parent is left as it was
SetParentForgotten(n, uid) == n

SetParent(n, uid) ==
    IF n.st.panicked THEN n
    ELSE [st |-> [n.st EXCEPT !.files[uid].parent = Some(n.ret)], ret |-> n.ret]

\* every parent directory is registered under a new normal uid
RegisterParentAlwaysFresh(st, uid, parent_path) ==
    SetParent(NewFromDirPath([st EXCEPT !.rand = @ + 1], parent_path,
                             Some(NormalUid(st.rand)), <<>>), uid)

\* file.rs:358-364: the parent directory is registered under ROOT or a
\* new normal uid
RegisterParent(st, uid, parent_path) ==
    IF parent_path = "/"
    THEN SetParent(NewFromDirPath(st, parent_path, Some(ROOT), <<>>), uid)
    ELSE SetParent(NewFromDirPath([st EXCEPT !.rand = @ + 1], parent_path,
                                  Some(NormalUid(st.rand)), <<>>), uid)

\* file.rs:353-355: both unwraps
ParentOfPath(p, uid) ==
    IF p.st.panicked \/ p.ret = <<>> THEN [st |-> Panic(p.st), ret |-> uid]
    ELSE IF PathParent(p.ret[1]) = <<>> THEN [st |-> Panic(p.st), ret |-> uid]
    ELSE RegisterParent(p.st, uid, PathParent(p.ret[1])[1])

\* only the stored parent is returned: an entry without one is its own parent
GetParentUidStoredOnly(st, uid) ==
    IF st.panicked THEN [st |-> st, ret |-> uid]
    ELSE IF IsSpecialFile(st.files[uid]) THEN [st |-> Panic(st), ret |-> uid]
    ELSE IF st.files[uid].parent # <<>> THEN [st |-> st, ret |-> st.files[uid].parent[1]]
    ELSE [st |-> st, ret |-> uid]

\* File::get_parent_uid (file.rs:348)
GetParentUid(st, uid) ==
    IF st.panicked THEN [st |-> st, ret |-> uid]
    ELSE IF IsSpecialFile(st.files[uid]) THEN [st |-> Panic(st), ret |-> uid]
    ELSE IF st.files[uid].parent # <<>> THEN [st |-> st, ret |-> st.files[uid].parent[1]]
    ELSE ParentOfPath(GetPathByUid(st, uid), uid)

-----------------------------------------------------------------------------
(* utils.rs: sort_files.  Strings are compared as Rust compares them, byte *)
(* by byte; the names are ASCII.                                           *)

\* the printable ASCII characters in the order of their bytes, without
\* the double quote (34), the backslash (92) and the backquote (96), in
\* four runs
AsciiFrom32 == " !"

AsciiFrom35 == "#$%&'()*+,-./0123456789:;<=>?@ABCDEFGHIJKLMNOPQRSTUVWXYZ["

AsciiFrom93 == "]^_"

AsciiFrom97 == "abcdefghijklmnopqrstuvwxyz{|}~"

\* the position of c in run, 0 if it is not there
RECURSIVE IndexIn(_, _, _)
IndexIn(run, c, i) ==
    IF i > Len(run) THEN 0
    ELSE IF Chr(run, i) = c THEN i
    ELSE IndexIn(run, c, i + 1)

\* the byte of an ASCII character
CharCodeFrom(c, base, run, other) ==
    IF IndexIn(run, c, 1) > 0 THEN base + IndexIn(run, c, 1) - 1 ELSE other

CharCode(c) ==
    CharCodeFrom(c, 32, AsciiFrom32,
        CharCodeFrom(c, 35, AsciiFrom35,
            CharCodeFrom(c, 93, AsciiFrom93,
                CharCodeFrom(c, 97, AsciiFrom97, 127))))

\* a < b for strings (Ord for String)
RECURSIVE StrLessFrom(_, _, _)
StrLessFrom(a, b, i) ==
    IF i > Len(a) THEN i <= Len(b)
    ELSE IF i > Len(b) THEN FALSE
    ELSE IF Chr(a, i) = Chr(b, i) THEN StrLessFrom(a, b, i + 1)
    ELSE CharCode(Chr(a, i)) < CharCode(Chr(b, i))

StrLess(a, b) == StrLessFrom(a, b, 1)

\* the columns of ColumnKind that the entries of the model carry
SortKinds == {"Name", "Size", "TotalSize"}

\* the key of sort_by_key (utils.rs:57-76); the recursive size is the one
\* get_recursive_size has stored
SortKey(st, uid, sort_by) ==
    CASE sort_by = "Name" -> st.files[uid].name
      [] sort_by = "Size" -> st.files[uid].size
      [] sort_by = "TotalSize" -> st.files[uid].recursive_size[1]

KeyLess(sort_by, a, b) == IF sort_by = "Name" THEN StrLess(a, b) ELSE a < b

\* slice::sort_by_key is stable: an element goes before the first element
\* with a greater key
RECURSIVE InsertByKey(_, _, _, _)
InsertByKey(st, uid, sorted, sort_by) ==
    IF sorted = <<>> THEN <<uid>>
    ELSE IF KeyLess(sort_by, SortKey(st, uid, sort_by), SortKey(st, Head(sorted), sort_by))
    THEN <<uid>> \o sorted
    ELSE <<Head(sorted)>> \o InsertByKey(st, uid, Tail(sorted), sort_by)

RECURSIVE SortByKey(_, _, _, _)
SortByKey(st, list, sorted, sort_by) ==
    IF list = <<>> THEN sorted
    ELSE SortByKey(st, Tail(list), InsertByKey(st, Head(list), sorted, sort_by), sort_by)

Reverse(list) == [i \in 1..Len(list) |-> list[Len(list) + 1 - i]]

\* utils.rs:54-80 on the store in which the keys have been computed
SortedFiles(st, list, sort_by, reverse) ==
    IF st.panicked THEN [st |-> st, ret |-> list]
    ELSE [st |-> st,
          ret |-> IF reverse THEN Reverse(SortByKey(st, list, <<>>, sort_by))
                  ELSE SortByKey(st, list, <<>>, sort_by)]

\* sort_files (utils.rs:54): the key function runs for every element of a
\* list that has two elements or more, and for TotalSize it is
\* get_recursive_size
SortFiles(st, list, sort_by, reverse) ==
    SortedFiles(IF sort_by = "TotalSize" /\ Len(list) >= 2
                THEN SumChildren(st, list, 0, 0).st ELSE st,
                list, sort_by, reverse)

-----------------------------------------------------------------------------
(* print/dir.rs: print_dir on the store.  A row is the uid of its entry    *)
(* and its nested level.                                                   *)

Digits == "0123456789"

\* format!("{n}")
RECURSIVE ToDecimal(_)
ToDecimal(n) ==
    IF n < 10 THEN Chr(Digits, n + 1)
    ELSE ToDecimal(n \div 10) \o Chr(Digits, (n % 10) + 1)

\* a unit is left as soon as the size reaches 1024 of it
PrettifySizeByPowersOf1024(size) ==
    IF size < 1024 THEN ToDecimal(size) \o " B  "
    ELSE IF size \div 1024 < 1024 THEN ToDecimal(size \div 1024) \o " KiB"
    ELSE IF size \div (1024 * 1024) < 1024
         THEN ToDecimal(size \div (1024 * 1024)) \o " MiB"
    ELSE ToDecimal(size \div (1024 * 1024 * 1024)) \o " GiB"

\* print/utils.rs:11-32. size <= 9999 << k is written as
\* (size >> k) <= 9999, which is the same for natural numbers and keeps
\* every intermediate value below 2^31
PrettifySize(size) ==
    IF size <= 9999 THEN ToDecimal(size) \o " B  "
    ELSE IF size \div 1024 <= 9999 THEN ToDecimal(size \div 1024) \o " KiB"
    ELSE IF size \div (1024 * 1024) <= 9999
         THEN ToDecimal(size \div (1024 * 1024)) \o " MiB"
    ELSE IF size \div (1024 * 1024 * 1024) <= 9999
         THEN ToDecimal(size \div (1024 * 1024 * 1024)) \o " GiB"
    ELSE ToDecimal((size \div (1024 * 1024 * 1024)) \div 1024) \o " TiB"

\* str::trim on a string that has no leading whitespace
RECURSIVE Trim(_)
Trim(s) ==
    IF Len(s) > 0 /\ Chr(s, Len(s)) = " " THEN Trim(SubSeq(s, 1, Len(s) - 1))
    ELSE s

\* File::message_for_truncated_rows (file.rs:218)
\* a registration that does not look the id up first and draws a random
\* number for every call
MessageForTruncatedRowsUnchecked(st, n) ==
    [st |-> InsertFile([st EXCEPT !.rand = @ + 1],
                       [DummyFile(TruncatedRowsUid(n)) EXCEPT
                           !.name = "... (truncated " \o ToDecimal(n) \o " rows)"]),
     ret |-> TruncatedRowsUid(n)]

MessageForTruncatedRows(st, n) ==
    IF TruncatedRowsUid(n) \in DOMAIN st.files
    THEN [st |-> st, ret |-> TruncatedRowsUid(n)]
    ELSE [st |-> InsertFile(st, [DummyFile(TruncatedRowsUid(n)) EXCEPT
                                    !.name = "... (truncated " \o ToDecimal(n) \o " row"
                                             \o (IF n < 2 THEN "" ELSE "s") \o ")"]),
          ret |-> TruncatedRowsUid(n)]

\* File::message_from_string: a message entry with a random id
\* (uid.rs:23) that carries the text as its name
MessageFromString(st, s) ==
    [st |-> InsertFile([st EXCEPT !.rand = @ + 1],
                       [DummyFile(MessageUid(st.rand)) EXCEPT !.name = s]),
     ret |-> MessageUid(st.rand)]

\* print/dir.rs:92: nested contents are added only if more than this many
\* rows are free
NestedMargin == 4

\* print/dir.rs:395-396: get_children_num of every row
RECURSIVE ChildrenNums(_, _, _, _)

PushChildrenNum(n, contents, h, nums) ==
    ChildrenNums(n.st, contents, h, Append(nums, n.ret))

ChildrenNums(st, contents, h, nums) ==
    IF contents = <<>> \/ st.panicked THEN [st |-> st, ret |-> nums]
    ELSE PushChildrenNum(GetChildrenNum(st, Head(contents), h), Tail(contents), h, nums)

TopRows(list) == [i \in 1..Len(list) |-> [uid |-> list[i], level |-> 0]]

ChildRows(list) == [i \in 1..Len(list) |-> [uid |-> list[i], level |-> 1]]

\* print/dir.rs:436-455: the output loop
RECURSIVE NestedRowsIn(_, _, _, _, _, _)

\* print/dir.rs:450-453
NestedTruncated(m, contents, shows, i, config, rows) ==
    NestedRowsIn(m.st, contents, shows, i + 1, config,
                 Append(rows, [uid |-> m.ret, level |-> 1]))

\* print/dir.rs:445-453 over the sorted children s
NestedSortedChildren(s, contents, shows, i, config, rows) ==
    IF s.st.panicked THEN [st |-> s.st, rows |-> rows]
    ELSE IF Len(s.ret) > shows[i]
    THEN NestedTruncated(MessageForTruncatedRows(s.st, Len(s.ret) - shows[i]),
                         contents, shows, i, config,
                         rows \o ChildRows(SubSeq(s.ret, 1, shows[i])))
    ELSE NestedRowsIn(s.st, contents, shows, i + 1, config,
                      rows \o ChildRows(SubSeq(s.ret, 1, shows[i])))

\* print/dir.rs:442-443
NestedChildren(c, contents, shows, i, config, rows) ==
    NestedSortedChildren(SortFiles(c.st, c.ret, config.sort_by, config.sort_reverse),
                         contents, shows, i, config, rows)

NestedRowsIn(st, contents, shows, i, config, rows) ==
    IF i > Len(contents) \/ st.panicked THEN [st |-> st, rows |-> rows]
    ELSE IF shows[i] > 0
    THEN NestedChildren(GetChildren(st, contents[i], config.show_hidden_files),
                        contents, shows, i, config,
                        Append(rows, [uid |-> contents[i], level |-> 0]))
    ELSE NestedRowsIn(st, contents, shows, i + 1, config,
                      Append(rows, [uid |-> contents[i], level |-> 0]))

\* print/dir.rs:408-455 after the counts n of the rows have been read
NestedAllocated(n, contents, config) ==
    IF n.st.panicked THEN [st |-> n.st, rows |-> <<>>]
    ELSE NestedRowsIn(n.st, contents,
                      NumberOfChildrenToShow(n.ret, config.max_row).shows,
                      1, config, <<>>)

\* add_nested_contents (print/dir.rs:388) on the store
AddNestedContentsOf(st, contents, config) ==
    NestedAllocated(ChildrenNums(st, contents, config.show_hidden_files, <<>>),
                    contents, config)

\* print/dir.rs:83-85
Offsetted(list, offset) ==
    IF offset > 0
    THEN SubSeq(list, Min(offset, Max(Len(list), 1) - 1) + 1, Len(list))
    ELSE list

\* print/dir.rs:87-103
LevelledRows(st, list, config) ==
    IF Len(list) > config.max_row
    THEN [st |-> st, rows |-> TopRows(SubSeq(list, 1, config.max_row))]
    ELSE IF Len(list) + NestedMargin < config.max_row
    THEN AddNestedContentsOf(st, list, config)
    ELSE [st |-> st, rows |-> TopRows(list)]

\* print/dir.rs:108-109
ShownRows(rows) == Len(SelectSeq(rows, LAMBDA r : r.level = 0))

\* the truncated rows counted without the offset
TruncatedRowsIgnoringOffset(rows, children_num, offset) ==
    children_num - ShownRows(rows)

TruncatedRows(rows, children_num, offset) ==
    Max(children_num, ShownRows(rows) + offset) - ShownRows(rows) - offset

AppendRow(m, rows) ==
    [st |-> m.st, rows |-> Append(rows, [uid |-> m.ret, level |-> 0])]

\* print/dir.rs:143-260: the cells of one row; the name column resolves the
\* path of a top-level row if show_full_path is set, the TotalSize column
\* calls get_recursive_size twice
UnwrapPath(p) == IF p.ret = <<>> THEN Panic(p.st) ELSE p.st

RowSizeCells(st, row, config) ==
    IF st.panicked \/ ~config.total_size_column THEN st
    ELSE GetRecursiveSize(GetRecursiveSize(st, row.uid).st, row.uid).st

RowCells(st, row, config) ==
    IF IsSpecialFile(st.files[row.uid]) THEN st
    ELSE RowSizeCells(IF row.level = 0 /\ config.show_full_path
                      THEN UnwrapPath(GetPathByUid(st, row.uid)) ELSE st,
                      row, config)

RECURSIVE TableRows(_, _, _)
TableRows(st, rows, config) ==
    IF rows = <<>> \/ st.panicked THEN st
    ELSE TableRows(RowCells(st, Head(rows), config), Tail(rows), config)

\* print/dir.rs:135-343
PrintTable(n, config) ==
    [st |-> TableRows(n.st, n.rows, config), rows |-> n.rows, error |-> FALSE]

\* print/dir.rs:119-125
EmptyMessage(n, children_num) ==
    IF n.st.panicked \/ children_num # 0 THEN n
    ELSE AppendRow(MessageFromString(n.st, "Empty Directory"), n.rows)

\* print/dir.rs:111-117
TruncatedMessage(n, children_num, offset) ==
    IF n.st.panicked \/ TruncatedRows(n.rows, children_num, offset) = 0 THEN n
    ELSE AppendRow(MessageForTruncatedRows(n.st, TruncatedRows(n.rows, children_num, offset)),
                   n.rows)

\* print/dir.rs:81-125 over the sorted children s
PrintSorted(s, children_num, config) ==
    IF s.st.panicked THEN [st |-> s.st, rows |-> <<>>, error |-> TRUE]
    ELSE PrintTable(EmptyMessage(TruncatedMessage(
                        LevelledRows(s.st, Offsetted(s.ret, config.offset), config),
                        children_num, config.offset), children_num), config)

\* print/dir.rs:64-79: the path of the directory
PrintAtPath(p, children, config) ==
    IF p.st.panicked \/ p.ret = <<>> THEN [st |-> p.st, rows |-> <<>>, error |-> TRUE]
    ELSE PrintSorted(SortFiles(p.st, children, config.sort_by, config.sort_reverse),
                     Len(children), config)

PrintChildren(c, uid, config) ==
    IF c.st.panicked THEN [st |-> c.st, rows |-> <<>>, error |-> TRUE]
    ELSE PrintAtPath(GetPathByUid(c.st, uid), c.ret, config)

\* print_dir (print/dir.rs:51)
PrintDir(st, uid, config) ==
    IF st.panicked THEN [st |-> st, rows |-> <<>>, error |-> TRUE]
    ELSE IF uid \notin DOMAIN st.files
    THEN [st |-> Panic(st), rows |-> <<>>, error |-> TRUE]
    ELSE PrintChildren(GetChildren(InitChildren(st, uid), uid, config.show_hidden_files),
                       uid, config)

-----------------------------------------------------------------------------
(* print.rs: print_row, over rows of strings; a string is its sequence of
   characters, so Len is chars().count() *)

\* " ".repeat(n)
RECURSIVE Spaces(_)
Spaces(n) == IF n <= 0 THEN "" ELSE " " \o Spaces(n - 1)

\* print.rs:873-877
LeftMargin(width, len, alignment) ==
    CASE alignment = "Left" -> 0
      [] alignment = "Center" -> (width - len) \div 2
      [] alignment = "Right" -> width - len

\* print.rs:872-903: the cell fits and is padded
PaddedCell(content, width, alignment) ==
    Spaces(LeftMargin(width, Len(content), alignment))
    \o content
    \o Spaces(width - Len(content) - LeftMargin(width, Len(content), alignment))

\* print.rs:907-911
FirstHalf(width) == (width - 3) \div 2

LastHalf(width) == width - 3 - FirstHalf(width)

\* print.rs:905-935: the cell is cut around "..."
TruncatedCell(content, width) ==
    SubSeq(content, 1, FirstHalf(width))
    \o "..."
    \o SubSeq(content, Len(content) - LastHalf(width) + 1, Len(content))

\* print.rs:907: widths[i] - 3 on usize. A debug build panics on the
\* subtraction; a release build wraps it, and the slice [..first_half]
\* then panics because first_half exceeds the length of the cell.
TruncationPanics(content, width) == Len(content) > width /\ width < 3

\* print.rs:869-936: the text of one cell
RenderCell(content, width, alignment) ==
    IF Len(content) <= width THEN PaddedCell(content, width, alignment)
    ELSE TruncatedCell(content, width)

\* print.rs:869-948: the cells printed before the row ends or a panic
RECURSIVE PrintRowFrom(_, _, _, _, _)
PrintRowFrom(cs, ws, as, i, out) ==
    IF i > Len(cs) THEN [panicked |-> FALSE, cells |-> out]
    ELSE IF TruncationPanics(cs[i], ws[i]) THEN [panicked |-> TRUE, cells |-> out]
    ELSE PrintRowFrom(cs, ws, as, i + 1, Append(out, RenderCell(cs[i], ws[i], as[i])))

\* print.rs:842-959
PrintRow(cs, ws, as) == PrintRowFrom(cs, ws, as, 1, <<>>)

-----------------------------------------------------------------------------
(* print/file.rs: the text view of print_file. The table of the layout
   holds the character counts of the cells; a body cell is shown as that
   many letters. *)

\* print/config.rs:163-171, and the defaults of 189-200 without a terminal
AdjustedMaxWidth(w) == IF w = None THEN 120 ELSE Max(w, 36) - 4

AdjustedMinWidth(w) == IF w = None THEN 64 ELSE AdjustedMaxWidth(w) \div 4

\* print/file.rs:116-123: "line", "", "content"
TextHeaderRow == <<Len("line"), Len(""), Len("content")>>

\* print/file.rs:164-168 and 196-200: line number, border, content
TextLineRow(line_no, len) == <<Len(ToDecimal(line_no)), 1, len>>

\* print/file.rs:220
TextTruncatedRow(truncated) ==
    <<Len("... (truncated " \o Trim(PrettifySize(truncated)) \o ")")>>

\* print/file.rs:116-224: the rows of the table
TextTable(lens, truncated) ==
    <<TextHeaderRow>>
    \o [k \in 1..Len(lens) |-> TextLineRow(k, lens[k])]
    \o (IF truncated > 0 THEN <<TextTruncatedRow(truncated)>> ELSE <<>>)

RECURSIVE Fill(_)
Fill(n) == IF n <= 0 THEN "" ELSE "x" \o Fill(n - 1)

\* print/file.rs:245-265: the row above the table, with the path and the
\* size of the file
FileHeaderRow(path, table_width) ==
    [contents |-> <<path, PrettifySize(OsSize(path))>>,
     widths |-> <<table_width - 16 - COLUMN_MARGIN * 3, 16>>,
     alignments |-> <<"Left", "Right">>]

\* print/file.rs:274-286: row r of the table
FileBodyRow(t, result, r) ==
    [contents |-> [i \in 1..Len(t[r]) |-> Fill(t[r][i])],
     widths |-> result[Len(t[r])],
     alignments |-> IF r = 1 THEN <<"Center", "Center", "Center">>
                    ELSE IF Len(t[r]) = 1 THEN <<"Left">>
                    ELSE <<"Right", "Left", "Left">>]

\* print/file.rs:245-286: the rows handed to print_row, in order
FileRows(path, t, result, table_width) ==
    <<FileHeaderRow(path, table_width)>>
    \o [r \in 1..Len(t) |-> FileBodyRow(t, result, r)]

\* print/file.rs:252: curr_table_width - 16 - COLUMN_MARGIN * 3 on usize.
\* A debug build panics on the subtraction; a release build wraps it to a
\* width near 2^64 and " ".repeat panics on the padding of the path.
HeaderWidthPanics(table_width) == table_width - 16 - COLUMN_MARGIN * 3 < 0

\* the first row on which print_row panics, or 0
RECURSIVE FirstPanickingRow(_, _)
FirstPanickingRow(rows, i) ==
    IF i > Len(rows) THEN 0
    ELSE IF PrintRow(rows[i].contents, rows[i].widths, rows[i].alignments).panicked
         THEN i
         ELSE FirstPanickingRow(rows, i + 1)

-----------------------------------------------------------------------------
(* Inputs of the nested-contents specification *)

MaxTopRows == 6

MaxChildrenNum == 3

MaxRowBudget == 14

NoResult == [shows |-> <<>>, remaining |-> 0, rows |-> <<>>]

-----------------------------------------------------------------------------
(* Inputs of the layout specification *)

MaxCols == 3

HeaderCellWidths == {3, 17, 20, 30}

SpanRowCellWidths == {2, 24}

MaxWidths == {None, 40, 60}

MinWidths == {None, 10, 40, 64}

SeqsOfLen(S, n) == [1..n -> S]

Tables ==
    UNION { { <<h>> : h \in SeqsOfLen(HeaderCellWidths, m) }
            \cup { <<h, r>> : h \in SeqsOfLen(HeaderCellWidths, m),
                              r \in UNION {SeqsOfLen(SpanRowCellWidths, n) : n \in 1..m} }
          : m \in 1..MaxCols }

(* Inputs of the row specification *)

MaxCellLen == 5

MaxCellWidth == 6

CellChars == {"a", "b"}

RECURSIVE CellsOfLen(_)
CellsOfLen(n) ==
    IF n = 0 THEN {""}
    ELSE {c \o cell : c \in CellChars, cell \in CellsOfLen(n - 1)}

Cells == UNION {CellsOfLen(n) : n \in 0..MaxCellLen}

\* print.rs:53-55
Alignments == {"Left", "Center", "Right"}

\* a second cell of the row, with its width and alignment
TrailingCells ==
    { [content |-> "", width |-> 3, alignment |-> "Right"],
      [content |-> "bbbb", width |-> 4, alignment |-> "Center"],
      [content |-> "bbbb", width |-> 3, alignment |-> "Left"] }

(* Inputs of the hex-view specification: offsets and file sizes in bytes *)

MaxHexOffset == 48

MaxHexSize == 48

(* Inputs of the file-view specification *)

MaxLines == 2

\* the character counts of the lines of a text file
LineLens == {1, 9, 12, 40}

\* the bytes left out of the view (print/file.rs:99 and 183)
TruncatedSizes == {0, 2048}

\* terminal widths that main accepts (main.rs:24 asks for max_width >= 40);
\* None is a process without a terminal
TerminalWidths == {None, 44, 60, 95}

FileTables ==
    {TextTable(lens, truncated) :
        lens \in UNION {SeqsOfLen(LineLens, n) : n \in 0..MaxLines},
        truncated \in TruncatedSizes}

(* Bounds and bookkeeping of the store specification *)

MaxFiles == 9

StartDirs == {"/h", "/h/a"}

\* PrintDirConfig::default (print/config.rs:100) with the max_row of
\* adjust_output_dimension
DefaultConfig(max_row) ==
    [show_hidden_files |-> FALSE, sort_by |-> "Name", sort_reverse |-> FALSE,
     max_row |-> max_row, offset |-> 0, total_size_column |-> FALSE,
     show_full_path |-> FALSE]

\* print/config.rs:80: h.max(28).min(168) - 8 at the least, the default 60
\* if the terminal has no size
StartMaxRows == {20, 60}

\* the configurations print_dir is called with
PrintConfigs ==
    { DefaultConfig(20),
      [show_hidden_files |-> TRUE, sort_by |-> "TotalSize", sort_reverse |-> FALSE,
       max_row |-> 2, offset |-> 0, total_size_column |-> TRUE,
       show_full_path |-> TRUE],
      [show_hidden_files |-> TRUE, sort_by |-> "Name", sort_reverse |-> TRUE,
       max_row |-> 6, offset |-> 1, total_size_column |-> FALSE,
       show_full_path |-> TRUE],
      [show_hidden_files |-> FALSE, sort_by |-> "Size", sort_reverse |-> FALSE,
       max_row |-> 7, offset |-> 0, total_size_column |-> TRUE,
       show_full_path |-> FALSE] }

\* ids that no registration has produced
UnknownUids == {ROOT, NormalUid(99), ErrorUid(99)}

St == [files |-> files, paths |-> paths, rand |-> rand, reads |-> reads,
       panicked |-> panicked, read_err |-> read_err, meta_err |-> meta_err]

EmptyMap == [u \in {} |-> 0]

\* the store after an operation
Becomes(st) ==
    /\ Cardinality(DOMAIN st.files) <= MaxFiles
    /\ files' = st.files
    /\ paths' = st.paths
    /\ rand' = st.rand
    /\ reads' = st.reads
    /\ panicked' = st.panicked
    /\ UNCHANGED <<read_err, meta_err, layoutVars, nestedVars, rowVars, hexVars>>

StoreIdle ==
    /\ spc = "idle"
    /\ files = EmptyMap
    /\ paths = EmptyMap
    /\ rand = 0
    /\ reads = EmptyMap
    /\ panicked = FALSE
    /\ read_err = EmptyMap
    /\ meta_err = EmptyMap

RowIdle ==
    /\ rpc = "idle"
    /\ row_contents = <<>>
    /\ row_widths = <<>>
    /\ alignments = <<>>
    /\ printed = <<>>

HexIdle ==
    /\ hpc = "idle"
    /\ hex_offset = 0
    /\ hex_size = 0
    /\ hex_start = 0

LayoutIdle ==
    /\ lpc = "idle"
    /\ table = <<>>
    /\ max_width = None
    /\ min_width = None
    /\ widths = <<>>
    /\ diff = 0
    /\ total = 0
    /\ shrunk = FALSE
    /\ expanded = FALSE
    /\ lresult = <<>>

NestedIdle ==
    /\ npc = "idle"
    /\ nnums = <<>>
    /\ nmax_row = 0
    /\ nresult = NoResult

\* print_dir calls add_nested_contents only if len + 4 < max_row
\* (print/dir.rs:92)
NestedInit ==
    /\ nnums \in UNION {[1..n -> 0..MaxChildrenNum] : n \in 0..MaxTopRows}
    /\ nmax_row \in 0..MaxRowBudget
    /\ Len(nnums) + NestedMargin < nmax_row
    /\ npc = "start"
    /\ nresult = NoResult
    /\ LayoutIdle
    /\ StoreIdle
    /\ RowIdle
    /\ HexIdle

NestedApply ==
    /\ npc = "start"
    /\ nresult' = AddNestedContents(nnums, nmax_row)
    /\ npc' = "done"
    /\ UNCHANGED <<nnums, nmax_row, layoutVars, storeVars, rowVars, hexVars>>

NestedNext == NestedApply

NestedSpec == NestedInit /\ [][NestedNext]_vars

LayoutInit ==
    /\ NestedIdle
    /\ StoreIdle
    /\ RowIdle
    /\ HexIdle
    /\ table \in Tables
    /\ max_width \in MaxWidths
    /\ min_width \in MinWidths
    /\ lpc = "start"
    /\ widths = <<>>
    /\ diff = 0
    /\ total = 0
    /\ shrunk = FALSE
    /\ expanded = FALSE
    /\ lresult = <<>>

\* print.rs:1030-1059: the assertion, the raw widths and the entry of the
\* shrink branch
LayoutStart ==
    /\ lpc = "start"
    /\ IF IsSome(max_width) /\ IsSome(min_width) /\ ~(max_width >= min_width)
       THEN /\ lpc' = "panicked"
            /\ UNCHANGED <<widths, diff, total, shrunk>>
       ELSE LET raw == RawWidths(table)
                t0 == TotalWidth(raw, COLUMN_MARGIN)
            IN /\ widths' = raw
               /\ total' = t0
               /\ IF IsSome(max_width) /\ max_width < t0
                  THEN /\ diff' = t0 - max_width
                       /\ shrunk' = TRUE
                       /\ lpc' = "shrink"
                  ELSE /\ diff' = 0
                       /\ shrunk' = FALSE
                       /\ lpc' = "expand"
    /\ UNCHANGED <<table, max_width, min_width, expanded, lresult>>
    /\ UNCHANGED <<nestedVars, storeVars, rowVars, hexVars>>

\* print.rs:1061-1078: one iteration of `while diff > 0`
LayoutShrinkPass ==
    /\ lpc = "shrink"
    /\ IF diff > 0
       THEN LET p == ShrinkPass(widths, diff)
            IN /\ widths' = p.widths
               /\ diff' = p.diff
               /\ IF p.did_something
                  THEN /\ lpc' = "shrink"
                       /\ UNCHANGED total
                  ELSE /\ lpc' = "expand"
                       /\ total' = TotalWidth(p.widths, COLUMN_MARGIN)
       ELSE /\ lpc' = "expand"
            /\ total' = TotalWidth(widths, COLUMN_MARGIN)
            /\ UNCHANGED <<widths, diff>>
    /\ UNCHANGED <<table, max_width, min_width, shrunk, expanded, lresult>>
    /\ UNCHANGED <<nestedVars, storeVars, rowVars, hexVars>>

\* print.rs:1082-1092
LayoutExpand ==
    /\ lpc = "expand"
    /\ IF IsSome(min_width) /\ min_width > total
       THEN /\ widths' = Expand(widths, min_width, COLUMN_MARGIN)
            /\ total' = TotalWidth(widths', COLUMN_MARGIN)
            /\ expanded' = TRUE
       ELSE UNCHANGED <<widths, total, expanded>>
    /\ lpc' = "result"
    /\ UNCHANGED <<table, max_width, min_width, diff, shrunk, lresult>>
    /\ UNCHANGED <<nestedVars, storeVars, rowVars, hexVars>>

\* print.rs:1094-1113
LayoutResult ==
    /\ lpc = "result"
    /\ lresult' = [n \in ColCounts(table) |->
                      WidthVector(widths, total, n, COLUMN_MARGIN)]
    /\ lpc' = "done"
    /\ UNCHANGED <<table, max_width, min_width, widths, diff, total, shrunk, expanded>>
    /\ UNCHANGED <<nestedVars, storeVars, rowVars, hexVars>>

LayoutNext ==
    \/ LayoutStart
    \/ LayoutShrinkPass
    \/ LayoutExpand
    \/ LayoutResult

LayoutSpec == LayoutInit /\ [][LayoutNext]_vars

\* the function body runs to its end: no step is ever suspended
LayoutFairSpec == LayoutSpec /\ WF_vars(LayoutNext)

-----------------------------------------------------------------------------
(* The entry store and the operations on it *)

\* main.rs:12-42: both maps are empty; the operating system answers the
\* calls on the fallible paths in one of the possible ways
Init ==
    /\ spc = "init"
    /\ files = EmptyMap
    /\ paths = EmptyMap
    /\ rand = 2
    /\ reads = EmptyMap
    /\ panicked = FALSE
    /\ read_err \in [FallibleDirs -> IoResults]
    /\ meta_err \in [FallibleEntries -> IoResults]
    /\ LayoutIdle
    /\ NestedIdle
    /\ RowIdle
    /\ HexIdle

\* main.rs:61: get_file_by_uid(curr_uid).unwrap()
UnwrapBase(n) == IF GetFileByUid(n.st, BASE) = <<>> THEN Panic(n.st) ELSE n.st

\* main.rs:44-69: the current directory is registered under Uid::BASE,
\* looked up and printed with the default configuration
Startup(dir, max_row) ==
    /\ spc = "init"
    /\ Becomes(PrintDir(UnwrapBase(NewFromPathBuf(St, dir, Some(BASE), <<>>)),
                        BASE, DefaultConfig(max_row)).st)
    /\ spc' = "running"

Running == spc = "running" /\ ~panicked

\* print_dir(uid, &config); main.rs:362-364 prints what has the type Dir
DoPrintDir(uid, config) ==
    /\ Running
    /\ files[uid].file_type = "Dir"
    /\ Becomes(PrintDir(St, uid, config).st)
    /\ UNCHANGED spc

\* file.init_children()
DoInitChildren(uid) ==
    /\ Running
    /\ Becomes(InitChildren(St, uid))
    /\ UNCHANGED spc

\* file.get_children_num(include_hidden_files)
DoGetChildrenNum(uid, include_hidden_files) ==
    /\ Running
    /\ Becomes(GetChildrenNum(St, uid, include_hidden_files).st)
    /\ UNCHANGED spc

\* file.get_children(show_hidden_files)
DoGetChildren(uid, show_hidden_files) ==
    /\ Running
    /\ Becomes(GetChildren(St, uid, show_hidden_files).st)
    /\ UNCHANGED spc

\* file.get_recursive_size()
DoGetRecursiveSize(uid) ==
    /\ Running
    /\ Becomes(GetRecursiveSize(St, uid).st)
    /\ UNCHANGED spc

\* get_path_by_uid(uid)
DoGetPathByUid(uid) ==
    /\ Running
    /\ Becomes(GetPathByUid(St, uid).st)
    /\ UNCHANGED spc

\* file.get_parent_uid()
DoGetParentUid(uid) ==
    /\ Running
    /\ Becomes(GetParentUid(St, uid).st)
    /\ UNCHANGED spc

Next ==
    \/ \E dir \in StartDirs, max_row \in StartMaxRows : Startup(dir, max_row)
    \/ \E uid \in DOMAIN files, config \in PrintConfigs : DoPrintDir(uid, config)
    \/ \E uid \in DOMAIN files : DoInitChildren(uid)
    \/ \E uid \in DOMAIN files, h \in BOOLEAN : DoGetChildrenNum(uid, h)
    \/ \E uid \in DOMAIN files, h \in BOOLEAN : DoGetChildren(uid, h)
    \/ \E uid \in DOMAIN files : DoGetRecursiveSize(uid)
    \/ \E uid \in DOMAIN files \cup UnknownUids : DoGetPathByUid(uid)
    \/ \E uid \in DOMAIN files : DoGetParentUid(uid)

Spec == Init /\ [][Next]_vars

-----------------------------------------------------------------------------
(* The library: lib.rs exports File with its registration functions, so a  *)
(* caller can register an entry under any parent id.                       *)

\* parent ids that are never registered, and the number of entries a
\* caller registers under them
OrphanParents == {NormalUid(99)}

MaxOrphans == 1

Orphans == {u \in DOMAIN files : files[u].parent # <<>>
                                  /\ files[u].parent[1] \in OrphanParents}

\* File::new_from_dir_entry(dir_entry, Some(parent)) (file.rs:115) for an
\* entry of a directory the caller has read
DoNewFromDirEntry(dir_path, name, parent) ==
    /\ Running
    /\ Cardinality(Orphans) < MaxOrphans
    /\ Becomes(NewFromDirEntry(St, dir_path, name, Some(parent)).st)
    /\ UNCHANGED spc

\* the largest truncated-rows count asked for
MaxTruncatedCount == 2

\* File::message_for_truncated_rows(n) (file.rs:218)
DoMessageForTruncatedRows(n) ==
    /\ Running
    /\ Becomes(MessageForTruncatedRows(St, n).st)
    /\ UNCHANGED spc

\* a caller that starts like main, registers entries, expands
\* directories and resolves paths
LibNext ==
    \/ \E dir \in StartDirs, max_row \in StartMaxRows : Startup(dir, max_row)
    \/ \E dir_path \in StartDirs, parent \in OrphanParents :
          \E i \in 1..Len(OsEntries(dir_path)) :
             DoNewFromDirEntry(dir_path, OsEntries(dir_path)[i], parent)
    \/ \E uid \in DOMAIN files : DoInitChildren(uid)
    \/ \E uid \in DOMAIN files, h \in BOOLEAN : DoGetChildren(uid, h)
    \/ \E uid \in DOMAIN files \cup UnknownUids : DoGetPathByUid(uid)
    \/ \E n \in 0..MaxTruncatedCount : DoMessageForTruncatedRows(n)

LibSpec == Init /\ [][LibNext]_vars

\* the synthetic entries registered so far
SpecialUids == {uid \in DOMAIN files : IsSpecialUid(uid)}

\* a caller that starts like main, registers truncation markers, and applies
\* every operation of File to the synthetic entries and to the directories
\* that hold them
SyntheticNext ==
    \/ \E dir \in StartDirs, max_row \in StartMaxRows : Startup(dir, max_row)
    \/ \E n \in 0..MaxTruncatedCount : DoMessageForTruncatedRows(n)
    \/ \E uid \in DOMAIN files : DoInitChildren(uid)
    \/ \E uid \in SpecialUids, h \in BOOLEAN : DoGetChildrenNum(uid, h)
    \/ \E uid \in SpecialUids, h \in BOOLEAN : DoGetChildren(uid, h)
    \/ \E uid \in SpecialUids \cup {BASE} : DoGetRecursiveSize(uid)
    \/ \E uid \in SpecialUids : DoGetPathByUid(uid)

SyntheticSpec == Init /\ [][SyntheticNext]_vars

\* the program started in the directory /e, which holds three files of 10,
\* 2048 and 5000000 bytes, with the default max_row of 60
\* (print/config.rs:107)
ExampleNext ==
    \/ Startup("/e", 60)
    \/ \E uid \in DOMAIN files, config \in PrintConfigs : DoPrintDir(uid, config)
    \/ \E uid \in DOMAIN files : DoInitChildren(uid)
    \/ \E uid \in DOMAIN files, h \in BOOLEAN : DoGetChildrenNum(uid, h)
    \/ \E uid \in DOMAIN files, h \in BOOLEAN : DoGetChildren(uid, h)
    \/ \E uid \in DOMAIN files : DoGetRecursiveSize(uid)
    \/ \E uid \in DOMAIN files \cup UnknownUids : DoGetPathByUid(uid)
    \/ \E uid \in DOMAIN files : DoGetParentUid(uid)

ExampleSpec == Init /\ [][ExampleNext]_vars

\* print_row is given as many widths and alignments as cells
\* (print.rs:851-853)
RowInit ==
    /\ LayoutIdle
    /\ NestedIdle
    /\ StoreIdle
    /\ HexIdle
    /\ rpc = "start"
    /\ printed = <<>>
    /\ \E c \in Cells, w \in 0..MaxCellWidth, a \in Alignments :
          \/ /\ row_contents = <<c>>
             /\ row_widths = <<w>>
             /\ alignments = <<a>>
          \/ \E t \in TrailingCells :
                /\ row_contents = <<c, t.content>>
                /\ row_widths = <<w, t.width>>
                /\ alignments = <<a, t.alignment>>

\* print.rs:842-959
DoPrintRow ==
    /\ rpc = "start"
    /\ printed' = PrintRow(row_contents, row_widths, alignments).cells
    /\ rpc' = IF PrintRow(row_contents, row_widths, alignments).panicked
              THEN "panicked" ELSE "done"
    /\ UNCHANGED <<row_contents, row_widths, alignments>>
    /\ UNCHANGED <<layoutVars, nestedVars, storeVars, hexVars>>

RowNext == DoPrintRow

RowSpec == RowInit /\ [][RowNext]_vars

\* main.rs:44-69 with any directory as the current directory, then the
\* children and the parents of the registered entries (main.rs:308-323)
AnyDirNext ==
    \/ \E dir \in OsDirs, max_row \in StartMaxRows : Startup(dir, max_row)
    \/ \E uid \in DOMAIN files, h \in BOOLEAN : DoGetChildren(uid, h)
    \/ \E uid \in DOMAIN files : DoGetParentUid(uid)

AnyDirSpec == Init /\ [][AnyDirNext]_vars

\* print/file.rs:306-310: config.offset rounded down to a multiple of 8
\* (offset & 7 is offset % 8), then clamped
HexStartOffset(offset, size) ==
    Max(Min((offset - (offset % 8)) + 32, size), 32) - 32

HexInit ==
    /\ LayoutIdle
    /\ NestedIdle
    /\ StoreIdle
    /\ RowIdle
    /\ hpc = "start"
    /\ hex_offset \in 0..MaxHexOffset
    /\ hex_size \in 0..MaxHexSize
    /\ hex_start = 0

\* print/file.rs:304-321: the offset handed to read_at
HexSeek ==
    /\ hpc = "start"
    /\ hex_start' = HexStartOffset(hex_offset, hex_size)
    /\ hpc' = "done"
    /\ UNCHANGED <<hex_offset, hex_size, layoutVars, nestedVars, storeVars, rowVars>>

HexNext == HexSeek

HexSpec == HexInit /\ [][HexNext]_vars

\* print_file is called with the configuration main adjusted to the
\* terminal (main.rs:20-23, 345-347); row_contents holds the path of the file
FileViewInit ==
    /\ NestedIdle
    /\ StoreIdle
    /\ HexIdle
    /\ table \in FileTables
    /\ \E w \in TerminalWidths :
          /\ max_width = AdjustedMaxWidth(w)
          /\ min_width = AdjustedMinWidth(w)
    /\ lpc = "start"
    /\ widths = <<>>
    /\ diff = 0
    /\ total = 0
    /\ shrunk = FALSE
    /\ expanded = FALSE
    /\ lresult = <<>>
    /\ rpc = "idle"
    /\ row_contents \in {<<path>> : path \in OsFiles}
    /\ row_widths = <<>>
    /\ alignments = <<>>
    /\ printed = <<>>

\* print/file.rs:245-286 for the rows `rows`: print_row is called row by row
\* until one panics; row_contents, row_widths and alignments keep the last
\* row handed to print_row
PrintFileRowsOf(rows, bad) ==
    /\ rpc' = IF bad > 0 THEN "panicked" ELSE "done"
    /\ printed' = [r \in 1..(IF bad > 0 THEN bad ELSE Len(rows)) |->
                      PrintRow(rows[r].contents, rows[r].widths,
                               rows[r].alignments).cells]
    /\ row_contents' = rows[IF bad > 0 THEN bad ELSE Len(rows)].contents
    /\ row_widths' = rows[IF bad > 0 THEN bad ELSE Len(rows)].widths
    /\ alignments' = rows[IF bad > 0 THEN bad ELSE Len(rows)].alignments

\* print/file.rs:226-286: the header row and the rows of the table
PrintFileRows ==
    /\ lpc = "done"
    /\ rpc = "idle"
    /\ IF HeaderWidthPanics(total)
       THEN /\ rpc' = "panicked"
            /\ UNCHANGED <<row_contents, row_widths, alignments, printed>>
       ELSE PrintFileRowsOf(FileRows(row_contents[1], table, lresult, total),
                FirstPanickingRow(FileRows(row_contents[1], table, lresult, total), 1))
    /\ UNCHANGED <<layoutVars, nestedVars, storeVars, hexVars>>

FileViewNext ==
    \/ LayoutStart
    \/ LayoutShrinkPass
    \/ LayoutExpand
    \/ LayoutResult
    \/ PrintFileRows

FileViewSpec == FileViewInit /\ [][FileViewNext]_vars

-----------------------------------------------------------------------------
(* Properties of calc_table_column_widths *)

BoundsGiven == IsSome(max_width) /\ IsSome(min_width) /\ min_width <= max_width

\* C8 (as stated): with min_width <= max_width, the total width W satisfies
\* min_width <= W <= max_width whenever the width after the shrink step is
\* already at least min_width (no expansion), and W >= min_width whenever the
\* expansion was applied.
C8_WidthWithinBoundsAsStated ==
    (lpc = "done" /\ BoundsGiven) =>
        /\ ~expanded => (min_width <= total /\ total <= max_width)
        /\ expanded => total >= min_width

\* C8 (amended): with min_width <= max_width the total width W is always at
\* least min_width, and W <= max_width holds when no expansion was applied
\* and the shrink loop was not stopped by the 16-character column floor
\* (no shrinking was needed, or diff reached 0).
C8_WidthWithinBoundsUnlessFloorHit ==
    (lpc = "done" /\ BoundsGiven) =>
        /\ total >= min_width
        /\ (~expanded /\ diff = 0) => total <= max_width

C8_Witness ==
    /\ lpc = "done" /\ BoundsGiven
    /\ shrunk /\ diff = 0 /\ ~expanded
    /\ total = max_width

\* ceil(a / b) for a >= 0, b > 0
CeilDiv(a, b) == IF a % b = 0 THEN a \div b ELSE a \div b + 1

\* the expansion branch is taken in this step (print.rs:1082-1083)
ExpandStep ==
    /\ lpc = "expand" /\ lpc' = "result"
    /\ IsSome(min_width) /\ min_width > total

\* every column grows by d in this step
EveryColumnWidenedBy(d) ==
    /\ Len(widths') = Len(table[1])
    /\ \A i \in 1..Len(table[1]) : widths'[i] = widths[i] + d

\* C14 as stated: when min_width exceeds the (possibly shrunk) total width,
\* every column is widened by ceil((min_width - total) / M), M being the
\* number of columns of row 0.
C14_WidenedByCeilingAsStated ==
    [][ExpandStep =>
          EveryColumnWidenedBy(CeilDiv(min_width - total, Len(table[1])))]_vars

\* C14: when min_width exceeds the (possibly shrunk) total width, every
\* column is widened by floor((min_width - total) / M) + 1: the ceiling of
\* the quotient when M does not divide the deficit, and one more than the
\* ceiling when it does.
C14_WidenedByQuotientPlusOne ==
    [][ExpandStep =>
          EveryColumnWidenedBy(
              IF (min_width - total) % Len(table[1]) = 0
              THEN CeilDiv(min_width - total, Len(table[1])) + 1
              ELSE CeilDiv(min_width - total, Len(table[1])))]_vars

\* an expansion whose deficit was a multiple of the number of columns: the
\* new total is min_width + M
C14_Witness ==
    /\ lpc = "done" /\ expanded
    /\ Len(table[1]) > 1
    /\ total = min_width + Len(table[1])

\* C15: for every row length N that occurs in the table, the result holds a
\* width vector of N entries whose first N-1 entries are the computed widths
\* of the first N-1 columns and whose last entry is the width of the spanned
\* columns N..M with the margins between them; it is never negative, and
\* sum(vector) + margin * (N + 1) is the same total width for every N.
C15_WidthVectorPerRowLength ==
    lpc = "done" =>
        /\ DOMAIN lresult = ColCounts(table)
        /\ \A n \in ColCounts(table) :
              /\ Len(lresult[n]) = n
              /\ \A i \in 1..(n - 1) : lresult[n][i] = widths[i]
              /\ lresult[n][n] = SumSeq(SubSeq(widths, n, Len(widths)))
                                   + COLUMN_MARGIN * (Len(widths) - n)
              /\ lresult[n][n] >= 0
              /\ SumSeq(lresult[n]) + COLUMN_MARGIN * (n + 1) = total
        /\ \A n, m \in ColCounts(table) :
              SumSeq(lresult[n]) + COLUMN_MARGIN * (n + 1)
                  = SumSeq(lresult[m]) + COLUMN_MARGIN * (m + 1)

\* a table of three columns with a one-cell row, after a shrink
C15_Witness ==
    /\ lpc = "done" /\ shrunk
    /\ ColCounts(table) = {1, 3}
    /\ lresult[1] = <<total - 2 * COLUMN_MARGIN>>
    /\ Len(lresult[3]) = 3

\* the cell i of the row was written as a truncated cell of exactly w
\* characters: its first (w-3)/2 characters, "...", its last
\* w-3-(w-3)/2 characters
CutAroundDots(i) ==
    /\ i \in DOMAIN printed
    /\ Len(printed[i]) = row_widths[i]
    /\ printed[i] =
          SubSeq(row_contents[i], 1, (row_widths[i] - 3) \div 2)
          \o "..."
          \o SubSeq(row_contents[i],
                    Len(row_contents[i])
                      - (row_widths[i] - 3 - (row_widths[i] - 3) \div 2) + 1,
                    Len(row_contents[i]))

\* the cell i of the row was written padded to exactly w characters
PaddedAsAligned(i) ==
    /\ i \in DOMAIN printed
    /\ Len(printed[i]) = row_widths[i]
    /\ \E l, r \in 0..row_widths[i] :
          /\ printed[i] = Spaces(l) \o row_contents[i] \o Spaces(r)
          /\ alignments[i] = "Left" => l = 0
          /\ alignments[i] = "Right" => r = 0
          /\ alignments[i] = "Center" => (r = l \/ r = l + 1)

\* C16: a cell with more characters than its column width w is rendered as
\* its first (w-3)/2 characters, "...", and its last w-3-(w-3)/2 characters,
\* exactly w characters; a cell that fits is padded to exactly w characters
\* (Left pads on the right, Right on the left, Center splits the padding
\* with the extra space on the right).
C16_CellRenderedToWidth ==
    rpc \in {"done", "panicked"} =>
        \A i \in 1..Len(row_contents) :
            IF Len(row_contents[i]) > row_widths[i]
            THEN CutAroundDots(i)
            ELSE PaddedAsAligned(i)

\* a cell of 3 characters in a column of width 2 ended print_row
C16_NarrowColumnWitness ==
    /\ rpc = "panicked"
    /\ row_contents = <<"aab">>
    /\ row_widths = <<2>>

\* C17: in the tables of the file view, for the terminal sizes main accepts,
\* every cell handed to print_row that is longer than its column has a
\* column of width 3 or more, so print_row never panics on widths[i] - 3.
C17_TruncatedColumnsAtLeastThree ==
    /\ rpc # "panicked"
    /\ rpc = "done" =>
          \A i \in 1..Len(row_contents) :
              Len(row_contents[i]) > row_widths[i] => row_widths[i] >= 3

\* the header row of a text file whose table is 22 to 24 characters wide:
\* the path is longer than its column of width 0 to 2
C17_NarrowHeaderWitness ==
    /\ rpc = "panicked"
    /\ Len(row_widths) = 2
    /\ row_widths[1] \in 0..2
    /\ row_widths[2] = 16
    /\ Len(row_contents[1]) > row_widths[1]
    /\ total = row_widths[1] + 16 + 3 * COLUMN_MARGIN

\* C20: a pass of the shrink step decrements, by 1, only columns whose
\* current width exceeds 16; after the step a column whose raw width is at
\* most 16 is unchanged, no column was shrunk below 16, and either the total
\* width equals max_width exactly or every column is at most 16 wide.
C20_ShrinkOnlyAboveFloor ==
    /\ [][(lpc = "shrink") =>
            \A i \in 1..Len(widths) :
                /\ widths'[i] \in {widths[i], widths[i] - 1}
                /\ widths'[i] # widths[i] => widths[i] > 16]_vars
    /\ []((lpc = "expand" /\ shrunk) =>
            /\ \A i \in 1..Len(widths) :
                  IF RawWidths(table)[i] <= 16
                  THEN widths[i] = RawWidths(table)[i]
                  ELSE 16 <= widths[i] /\ widths[i] <= RawWidths(table)[i]
            /\ \/ total = max_width
               \/ \A i \in 1..Len(widths) : widths[i] <= 16)

\* after the shrink step one narrow column is untouched, a wide one was
\* shrunk and stayed above 16, and the total is max_width
C20_Witness ==
    /\ lpc = "expand" /\ shrunk
    /\ total = max_width
    /\ \E i, j \in 1..Len(widths) :
          /\ RawWidths(table)[i] <= 16 /\ widths[i] = RawWidths(table)[i]
          /\ 16 < widths[j] /\ widths[j] < RawWidths(table)[j]

\* C9: the shrink loop terminates for every input: every pass that does not
\* end the loop strictly decreases diff, the loop is left as soon as diff is
\* 0 or a pass shrank nothing (then no column is wider than 16), and the
\* function reaches its end.
C9_ShrinkLoopTerminates ==
    /\ [][(lpc = "shrink" /\ lpc' = "shrink") => (diff > 0 /\ diff' < diff)]_vars
    /\ [][(lpc = "shrink" /\ lpc' = "expand") =>
            (diff' = 0 \/ \A i \in 1..Len(widths') : widths'[i] <= ShrinkFloor)]_vars
    /\ (lpc = "shrink") ~> (lpc = "done")

\* columns {30,30,20} with max_width 40 stop at {16,16,16}, still above 40
C9_Witness ==
    /\ lpc = "expand"
    /\ RawWidths(table) = <<30, 30, 20>>
    /\ max_width = 40
    /\ widths = <<16, 16, 16>>
    /\ diff > 0
    /\ total > 40

-----------------------------------------------------------------------------
(* Properties of add_nested_contents *)

\* C1: add_nested_contents never returns more than max_row rows in total,
\* counting top-level rows, nested rows and nested truncation-marker rows.
C1_NestedRowsWithinBudget ==
    npc = "done" => Len(nresult.rows) <= nmax_row

\* the remaining budget at the start of the allocation (print/dir.rs:393)
StartBudget == nmax_row - Len(nnums)

\* the nested rows, truncation markers aside, shown under top-level row i
NestedRowsGiven(i) ==
    Cardinality({k \in 1..Len(nresult.rows) :
                    /\ nresult.rows[k].top = i
                    /\ nresult.rows[k].level = 1
                    /\ nresult.rows[k].child > 0})

\* the top-level rows before row i that have a displayable child
DirsWithChildrenBefore(i) ==
    Cardinality({j \in 1..(i - 1) : nnums[j] > 0})

\* C13 as stated: whenever the remaining budget R = max_row - len(children)
\* is greater than 0 at the start of the allocation, every top-level child
\* with at least one displayable child is given at least 1 nested row.
C13_EveryDirGetsNestedRowAsStated ==
    (npc = "done" /\ StartBudget > 0) =>
        \A i \in 1..Len(nnums) : nnums[i] > 0 => NestedRowsGiven(i) >= 1

\* C13: a top-level child with at least one displayable child is given at
\* least 1 nested row if fewer than R top-level children with a displayable
\* child come before it, and no nested row otherwise.
C13_EveryDirGetsNestedRow ==
    (npc = "done" /\ StartBudget > 0) =>
        \A i \in 1..Len(nnums) :
            nnums[i] > 0 =>
                IF DirsWithChildrenBefore(i) < StartBudget
                THEN NestedRowsGiven(i) >= 1
                ELSE NestedRowsGiven(i) = 0

\* five rows are reserved for five directories and the loop is not entered
C13_Witness ==
    /\ npc = "done"
    /\ StartBudget = 5
    /\ \E i \in 1..Len(nnums) :
          /\ nnums[i] > 1
          /\ DirsWithChildrenBefore(i) = 4
          /\ NestedRowsGiven(i) = 1

-----------------------------------------------------------------------------
(* Properties of the entry store *)

\* the read_dir calls made for uid, by the counter r
ReadsOf(r, uid) == IF uid \in DOMAIN r THEN r[uid] ELSE 0

\* C2: for every directory entry, children changes from None to Some(L) at
\* most once: once it is Some(L), every further init_children,
\* get_children_num, get_children, get_recursive_size or print_dir leaves it
\* equal to L and makes no further read_dir call for that entry.
C2_ChildrenInitialisedOnce ==
    [][\A u \in DOMAIN files :
          files[u].children # <<>> =>
              /\ u \in DOMAIN files'
              /\ files'[u].children = files[u].children
              /\ ReadsOf(reads', u) = ReadsOf(reads, u)
              /\ ReadsOf(reads, u) = 1]_vars

\* a directory that was read once, lists two entries or more, and whose
\* size has been computed by a later get_recursive_size
C2_Witness ==
    \E u \in DOMAIN files :
        /\ IsDir(files[u])
        /\ files[u].children # <<>>
        /\ Len(files[u].children[1]) >= 2
        /\ ReadsOf(reads, u) = 1
        /\ files[u].recursive_size # <<>>
        /\ TruncatedRowsUid(1) \in DOMAIN files

\* the sum of get_recursive_size over list, in the store st
RECURSIVE SumOfSizes(_, _)
SumOfSizes(st, list) ==
    IF list = <<>> THEN 0
    ELSE GetRecursiveSize(st, Head(list)).ret + SumOfSizes(st, Tail(list))

\* the result r of get_recursive_size(u) is the sum over all the children
DirSizeIsSum(r, u) ==
    r.st.panicked \/ r.ret = SumOfSizes(r.st, r.st.files[u].children[1])

\* C3: for every directory D, get_recursive_size(D) is the sum of
\* get_recursive_size(c) over all the children c of D, hidden ones included;
\* a regular file returns its direct size, stored at its creation.
C3_RecursiveSizeIsSumOverChildren ==
    ~panicked =>
        \A u \in DOMAIN files :
            /\ IsDir(files[u]) => DirSizeIsSum(GetRecursiveSize(St, u), u)
            /\ IsFile(files[u]) =>
                   /\ files[u].recursive_size = Some(files[u].size)
                   /\ GetRecursiveSize(St, u).ret = files[u].size

\* the current directory /h holds b (10), the hidden .c (4) and a, which
\* holds x (5) and a symlink: 19 in all
C3_Witness ==
    /\ BASE \in DOMAIN paths
    /\ paths[BASE] = "/h"
    /\ files[BASE].recursive_size = Some(19)
    /\ \E u \in DOMAIN files : IsHiddenFile(files[u]) /\ files[u].size = 4

\* C4: recursive_size changes from None to Some(v) at most once and no
\* operation changes or resets it afterwards; a repeated get_recursive_size
\* returns v in one call, visiting no child and changing nothing.
C4_RecursiveSizeMemoStable ==
    /\ [][\A u \in DOMAIN files :
             files[u].recursive_size # <<>> =>
                 /\ u \in DOMAIN files'
                 /\ files'[u].recursive_size = files[u].recursive_size]_vars
    /\ [](\A u \in DOMAIN files :
             (~panicked /\ files[u].recursive_size # <<>>) =>
                 GetRecursiveSize(St, u) =
                     [st |-> St, ret |-> files[u].recursive_size[1], calls |-> 1])

\* the size of the current directory /h/a has been stored, and the parent
\* directories have been registered since
C4_Witness ==
    /\ BASE \in DOMAIN paths
    /\ paths[BASE] = "/h/a"
    /\ files[BASE].recursive_size = Some(5)
    /\ ROOT \in DOMAIN files
    /\ \E u \in DOMAIN files : IsDir(files[u]) /\ files[u].recursive_size = <<>>

\* the join of a directory path and a name by the separator
OsJoin(parent, name) ==
    IF Chr(parent, Len(parent)) = "/" THEN parent \o name
    ELSE parent \o "/" \o name

\* every ancestor of u is registered, and the last one is the root or has a
\* known path
RECURSIVE ChainResolves(_)
ChainResolves(u) ==
    IF u \notin DOMAIN files THEN FALSE
    ELSE IF files[u].parent = <<>> THEN u = ROOT \/ u \in DOMAIN paths
    ELSE ChainResolves(files[u].parent[1])

\* the names of the ancestors of u and of u, joined below the path of the
\* last ancestor
RECURSIVE AncestorPath(_)
AncestorPath(u) ==
    IF files[u].parent = <<>>
    THEN (IF u \in DOMAIN paths THEN paths[u] ELSE "/")
    ELSE OsJoin(AncestorPath(files[u].parent[1]), files[u].name)

\* the result r of get_path_by_uid(u)
PathIsChain(r, u) ==
    /\ ~r.st.panicked
    /\ r.ret = Some(AncestorPath(u))
    /\ files[u].parent # <<>> =>
           r.ret = Some(OsJoin(GetPathByUid(r.st, files[u].parent[1]).ret[1],
                               files[u].name))
    /\ GetPathByUid(r.st, u) = [st |-> r.st, ret |-> r.ret, walked |-> 0]

\* C5: for every registered entry whose parent chain ends at an entry with
\* a known path or at the root, get_path_by_uid returns the path of the
\* parent joined with the name of the entry, which is the names of the
\* ancestors joined down from the end of the chain; a second call returns
\* the same string from the path cache and walks no parent.
C5_PathIsParentPathJoinedWithName ==
    ~panicked =>
        \A u \in DOMAIN files :
            ChainResolves(u) => PathIsChain(GetPathByUid(St, u), u)

\* the path of an entry three levels below the root, at which its chain
\* ends, has been resolved and cached
C5_Witness ==
    \E u \in DOMAIN paths :
        /\ paths[u] = "/h/a/x"
        /\ files[u].parent # <<>>
        /\ files[files[u].parent[1]].parent # <<>>
        /\ files[files[files[u].parent[1]].parent[1]].parent = Some(ROOT)
        /\ ROOT \in DOMAIN paths

\* C6: get_path_by_uid of an id that is in neither map returns None, does
\* not panic, and leaves both maps as they are.
C6_UnknownUidGivesNone ==
    \A u \in UnknownUids :
        (u \notin DOMAIN files /\ u \notin DOMAIN paths) =>
            GetPathByUid(St, u) = [st |-> St, ret |-> <<>>, walked |-> 0]

\* entries are registered and paths are cached, the root is not: its id is
\* looked up
C6_Witness ==
    /\ spc = "running"
    /\ ~panicked
    /\ Cardinality(DOMAIN files) >= 3
    /\ Cardinality(DOMAIN paths) >= 2
    /\ ROOT \notin DOMAIN files
    /\ ROOT \notin DOMAIN paths
    /\ GetPathByUid(St, ROOT).ret = <<>>

\* an ancestor of u is not registered (the root has no parent: an
\* unregistered ancestor is not the root of a chain that ends there)
RECURSIVE HasUnregisteredAncestor(_)
HasUnregisteredAncestor(u) ==
    /\ files[u].parent # <<>>
    /\ \/ files[u].parent[1] \notin DOMAIN files
       \/ HasUnregisteredAncestor(files[u].parent[1])

NoneWithoutPanic(r) == r.ret = <<>> /\ ~r.st.panicked

\* C7: get_path_by_uid returns None, and does not panic, for a registered
\* entry whose parent or other ancestor is not registered and is not the
\* root (stated for the entries whose path is not cached).
C7_UnregisteredAncestorGivesNone ==
    ~panicked =>
        \A u \in DOMAIN files :
            (u \notin DOMAIN paths /\ HasUnregisteredAncestor(u)) =>
                NoneWithoutPanic(GetPathByUid(St, u))

\* the only child is one Error entry
OneErrorChild(st, u) ==
    /\ st.files[u].children # <<>>
    /\ Len(st.files[u].children[1]) = 1
    /\ st.files[u].children[1][1].tag = ErrorUid(0).tag
    /\ st.files[u].children[1][1] \in DOMAIN st.files

\* C10: if the read_dir of init_children fails with any I/O error, the
\* children of the entry become a list of one Error entry and the program
\* does not crash.
C10_ReadFailureGivesErrorChild ==
    \A u \in DOMAIN files :
        (u \in DOMAIN paths /\ ReadsOf(reads, u) >= 1
           /\ OsReadDir(St, paths[u]) # "Ok") =>
            (~panicked /\ OneErrorChild(St, u))

\* the read of /h/a is denied: its only child is the Error entry
C10_PermissionDeniedWitness ==
    \E u \in DOMAIN paths :
        /\ paths[u] = "/h/a"
        /\ read_err["/h/a"] = "PermissionDenied"
        /\ ~panicked
        /\ OneErrorChild(St, u)

\* the path get_path_by_uid resolves u to, as an Option
ResolvedPath(u) == GetPathByUid(St, u).ret

\* C11: after any sequence of store operations no two distinct ids of
\* entries that are not synthetic resolve to the same absolute path.
C11_OneUidPerPath ==
    ~panicked =>
        \A u, v \in DOMAIN files :
            (u # v /\ ~IsSpecialUid(u) /\ ~IsSpecialUid(v)
               /\ ChainResolves(u) /\ ChainResolves(v)) =>
                ResolvedPath(u) # ResolvedPath(v)

-----------------------------------------------------------------------------
(* Properties of print_dir *)

\* small row budgets and offsets, with which the top level is truncated
MaxSmallRow == 2

SmallOffsets == {0, 1, 3}

TruncatingConfigs ==
    { [show_hidden_files |-> TRUE, sort_by |-> "Name", sort_reverse |-> FALSE,
       max_row |-> m, offset |-> o, total_size_column |-> FALSE,
       show_full_path |-> FALSE] : m \in 0..MaxSmallRow, o \in SmallOffsets }

\* the number of children print_dir counts for u (print/dir.rs:62)
ChildrenNumOf(u, config) == Len(GetChildren(St, u, config.show_hidden_files).ret)

\* the number of children left to display after the offset
DisplayedNumOf(u, config) ==
    Len(Offsetted(GetChildren(St, u, config.show_hidden_files).ret, config.offset))

\* the rows are max_row rows of level 0 that are no markers, then one
\* marker of level 0 that counts n rows
HardTruncated(rows, max_row, n) ==
    /\ Len(rows) = max_row + 1
    /\ \A i \in 1..max_row :
          rows[i].level = 0 /\ rows[i].uid.tag # TruncatedRowsUid(0).tag
    /\ rows[max_row + 1] = [uid |-> TruncatedRowsUid(n), level |-> 0]

\* C12 (as stated): when the number of top-level children left after the
\* offset exceeds max_row, print_dir shows exactly max_row rows of level 0
\* and then exactly one truncation marker that counts
\* children_num - max_row - offset rows.
C12_TopLevelTruncationAsStated ==
    ~panicked =>
        \A u \in DOMAIN files, config \in TruncatingConfigs :
            (IsDir(files[u]) /\ files[u].children # <<>>
               /\ DisplayedNumOf(u, config) > config.max_row) =>
                HardTruncated(PrintDir(St, u, config).rows, config.max_row,
                              ChildrenNumOf(u, config) - config.max_row - config.offset)

\* C12 (amended): the same, for an offset below the number of children;
\* with a greater offset (the case needs max_row = 0 then) no row and no
\* marker is shown.
C12_TopLevelTruncation ==
    ~panicked =>
        \A u \in DOMAIN files, config \in TruncatingConfigs :
            (IsDir(files[u]) /\ files[u].children # <<>>
               /\ DisplayedNumOf(u, config) > config.max_row) =>
                IF config.offset < ChildrenNumOf(u, config)
                THEN HardTruncated(PrintDir(St, u, config).rows, config.max_row,
                                   ChildrenNumOf(u, config) - config.max_row
                                       - config.offset)
                ELSE config.max_row = 0 /\ PrintDir(St, u, config).rows = <<>>

\* /h is listed: three children, so two rows and a marker for one row with
\* max_row = 2, and the marker has been registered by a print_dir
C12_Witness ==
    /\ ~panicked
    /\ TruncatedRowsUid(1) \in DOMAIN files
    /\ \E u \in DOMAIN files :
          /\ IsDir(files[u])
          /\ files[u].children # <<>>
          /\ Len(files[u].children[1]) = 3
          /\ \E config \in TruncatingConfigs :
                /\ config.max_row = 2
                /\ config.offset = 0
                /\ Len(PrintDir(St, u, config).rows) = 3

\* the state after one call of File::message_for_truncated_rows(n)
AfterTruncatedMessage(n) == MessageForTruncatedRows(St, n).st

\* C18: Uid::message_for_truncated_rows(n) depends on n only, gives different
\* ids for different n, and every such id is special;
\* File::message_for_truncated_rows(n) returns that id, registers an entry
\* under it only if none is registered, and a repeated call returns the same
\* id and leaves the store as the first call left it.
C18_TruncatedRowsIdDeterministic ==
    /\ \A n, m \in 0..MaxTruncatedCount :
          /\ (TruncatedRowsUid(n) = TruncatedRowsUid(m)) <=> (n = m)
          /\ IsSpecialUid(TruncatedRowsUid(n))
    /\ \A n \in 0..MaxTruncatedCount :
          /\ MessageForTruncatedRows(St, n).ret = TruncatedRowsUid(n)
          /\ TruncatedRowsUid(n) \in DOMAIN AfterTruncatedMessage(n).files
          /\ TruncatedRowsUid(n) \in DOMAIN files => AfterTruncatedMessage(n) = St
          /\ MessageForTruncatedRows(AfterTruncatedMessage(n), n).ret
                = TruncatedRowsUid(n)
          /\ MessageForTruncatedRows(AfterTruncatedMessage(n), n).st
                = AfterTruncatedMessage(n)

\* print_dir registered the marker of 2 truncated rows, and a marker of 1 row
\* is not registered yet
C18_Witness ==
    /\ TruncatedRowsUid(2) \in DOMAIN files
    /\ files[TruncatedRowsUid(2)].name = "... (truncated 2 rows)"
    /\ TruncatedRowsUid(1) \notin DOMAIN files

\* the rows print_dir shows for the current directory with max_row = 60
ExampleRows == PrintDir(St, BASE, DefaultConfig(60)).rows

\* print/dir.rs:239-240: the size cell of a row, without its padding
SizeCellOf(row) == Trim(PrettifySize(files[row.uid].size))

\* the three files are listed, in the order of their names
ExampleListsThreeFiles ==
    /\ Len(ExampleRows) = 3
    /\ \A i \in 1..3 : ExampleRows[i].level = 0
    /\ [i \in 1..3 |-> files[ExampleRows[i].uid].size] = <<10, 2048, 5000000>>

\* C19 as stated: a directory holding three files of 10, 2048 and 5,000,000
\* bytes, listed with max_row = 60, shows all three rows with the sizes
\* "10 B", "2 KiB" and "4 MiB", and its recursive size is 5002058.
C19_ExampleSizesAsStated ==
    (Running /\ files[BASE].name = "e") =>
        /\ ExampleListsThreeFiles
        /\ [i \in 1..3 |-> SizeCellOf(ExampleRows[i])] = <<"10 B", "2 KiB", "4 MiB">>
        /\ GetRecursiveSize(St, BASE).ret = 5002058

\* C19: the directory shows all three rows with the sizes "10 B", "2048 B"
\* and "4882 KiB" (a unit is kept up to 9999 of it), and its recursive size
\* is 5002058.
C19_ExampleSizes ==
    (Running /\ files[BASE].name = "e") =>
        /\ ExampleListsThreeFiles
        /\ [i \in 1..3 |-> SizeCellOf(ExampleRows[i])] = <<"10 B", "2048 B", "4882 KiB">>
        /\ GetRecursiveSize(St, BASE).ret = 5002058

\* the directory was listed and its recursive size is memoized
C19_Witness ==
    /\ Running
    /\ files[BASE].name = "e"
    /\ files[BASE].children # <<>>
    /\ Len(files[BASE].children[1]) = 3
    /\ files[BASE].recursive_size = <<5002058>>

-----------------------------------------------------------------------------
(* Properties of the children lists *)

\* the children stored for uid once get_children(h) returned
StoredAfterGet(uid, h) ==
    IF GetChildren(St, uid, h).st.files[uid].children = <<>> THEN <<>>
    ELSE GetChildren(St, uid, h).st.files[uid].children[1]

\* u is a synthetic entry, or its name does not start with '.'
ShownWhenHiding(st, u) ==
    u.tag # 0 \/ Len(st.files[u].name) = 0 \/ Chr(st.files[u].name, 1) # "."

\* the entries of list that satisfy ShownWhenHiding, in their order
RECURSIVE WithoutDotNames(_, _)
WithoutDotNames(st, list) ==
    IF list = <<>> THEN <<>>
    ELSE IF ShownWhenHiding(st, Head(list))
         THEN <<Head(list)>> \o WithoutDotNames(st, Tail(list))
         ELSE WithoutDotNames(st, Tail(list))

\* C21: get_children(false) returns exactly the children whose name does not
\* start with '.', keeping every synthetic entry; get_children(true) returns
\* all children in stored order; and for both flags get_children_num(h) is
\* the length of get_children(h).
C21_ChildrenFilteredByDotName ==
    ~panicked =>
        \A uid \in DOMAIN files :
            /\ ~GetChildren(St, uid, TRUE).st.panicked =>
                  GetChildren(St, uid, TRUE).ret = StoredAfterGet(uid, TRUE)
            /\ ~GetChildren(St, uid, FALSE).st.panicked =>
                  GetChildren(St, uid, FALSE).ret
                    = WithoutDotNames(GetChildren(St, uid, FALSE).st,
                                      StoredAfterGet(uid, FALSE))
            /\ \A h \in BOOLEAN :
                  ~GetChildren(St, uid, h).st.panicked =>
                      GetChildrenNum(St, uid, h).ret = Len(GetChildren(St, uid, h).ret)

\* /h is listed with its hidden file, and another directory holds one
\* synthetic Error entry that get_children(false) returns
C21_Witness ==
    /\ ~panicked
    /\ \E uid \in DOMAIN files :
          /\ files[uid].name = "h"
          /\ Len(GetChildren(St, uid, TRUE).ret) = 3
          /\ Len(GetChildren(St, uid, FALSE).ret) = 2
    /\ \E uid \in DOMAIN files :
          /\ files[uid].children # <<>>
          /\ Len(GetChildren(St, uid, FALSE).ret) = 1
          /\ GetChildren(St, uid, FALSE).ret[1].tag = 1

-----------------------------------------------------------------------------
(* Properties of the synthetic entries *)

\* C22: a synthetic entry (Error, Message, TruncatedMarker) never has
\* children: its children field is None in every reachable state,
\* init_children leaves it alone, get_children_num returns 0 for both flags,
\* its recursive size is 0, and get_path_by_uid returns None for it.
C22_SyntheticEntriesHaveNoChildren ==
    ~panicked =>
        \A uid \in DOMAIN files :
            IsSpecialUid(uid) =>
                /\ files[uid].children = <<>>
                /\ InitChildren(St, uid) = St
                /\ \A h \in BOOLEAN :
                      /\ GetChildrenNum(St, uid, h).ret = 0
                      /\ GetChildren(St, uid, h).ret = <<>>
                      /\ GetChildren(St, uid, h).st.files[uid].children = <<>>
                /\ GetRecursiveSize(St, uid).ret = 0
                /\ GetPathByUid(St, uid).ret = <<>>
                /\ ~GetPathByUid(St, uid).st.panicked

\* an Error entry is the child of a listed directory whose recursive size
\* is memoized, and a TruncatedMarker entry is registered
C22_Witness ==
    /\ ~panicked
    /\ \E d \in DOMAIN files :
          /\ files[d].children # <<>>
          /\ files[d].recursive_size # <<>>
          /\ \E i \in 1..Len(files[d].children[1]) :
                /\ files[d].children[1][i].tag = 1
                /\ files[files[d].children[1][i]].recursive_size = <<0>>
    /\ \E n \in 0..MaxTruncatedCount : TruncatedRowsUid(n) \in DOMAIN files

-----------------------------------------------------------------------------
(* Properties of get_parent_uid *)

\* the entries that were registered from a path, without a parent
Parentless == {uid \in DOMAIN files : ~IsSpecialUid(uid) /\ files[uid].parent = <<>>}

\* path is an entry of the OS directory dir
OsChildOf(path, dir) ==
    /\ dir \in OsDirs
    /\ \E i \in 1..Len(OsEntries(dir)) : DirEntryPath(dir, OsEntries(dir)[i]) = path

\* get_parent_uid(uid) registers exactly one new entry, for the OS parent
\* directory of uid, sets the parent of uid to it and changes nothing else;
\* the next call returns the same id and changes nothing
FirstCallRegistersParent(uid, r) ==
    /\ ~r.st.panicked
    /\ r.ret \notin DOMAIN files
    /\ DOMAIN r.st.files = DOMAIN files \cup {r.ret}
    /\ r.st.files[r.ret].file_type = "Dir"
    /\ r.ret \in DOMAIN r.st.paths
    /\ uid \in DOMAIN paths
    /\ OsChildOf(paths[uid], r.st.paths[r.ret])
    /\ r.st.files[uid] = [files[uid] EXCEPT !.parent = <<r.ret>>]
    /\ \A v \in DOMAIN files \ {uid} : r.st.files[v] = files[v]
    /\ GetParentUid(r.st, uid) = [st |-> r.st, ret |-> r.ret]

\* get_parent_uid(uid) returns the stored parent and changes nothing
LaterCallChangesNothing(uid) ==
    GetParentUid(St, uid) = [st |-> St, ret |-> files[uid].parent[1]]

\* C23 as stated: for an entry registered from a path with parent None, the
\* first get_parent_uid registers exactly one new entry for its OS parent
\* directory and sets entry.parent to that id; every later get_parent_uid on
\* the entry returns the same id, registers nothing and changes nothing.
C23_ParentRegisteredOnceAsStated ==
    ~panicked =>
        \A uid \in DOMAIN files :
            ~IsSpecialUid(uid) =>
                IF uid \in Parentless
                THEN FirstCallRegistersParent(uid, GetParentUid(St, uid))
                ELSE LaterCallChangesNothing(uid)

\* C23: the same for every entry but the one of the root directory "/",
\* which has no OS parent: get_parent_uid panics for it.
C23_ParentRegisteredOnce ==
    ~panicked =>
        \A uid \in DOMAIN files :
            ~IsSpecialUid(uid) =>
                IF uid \in Parentless
                THEN IF uid \in DOMAIN paths /\ paths[uid] = "/"
                     THEN GetParentUid(St, uid).st.panicked
                     ELSE FirstCallRegistersParent(uid, GetParentUid(St, uid))
                ELSE LaterCallChangesNothing(uid)

\* the start directory /h/a got its parent /h from a first call, and /h has
\* not been asked for its parent yet
C23_Witness ==
    /\ ~panicked
    /\ BASE \in DOMAIN files
    /\ files[BASE].name = "a"
    /\ files[BASE].parent # <<>>
    /\ files[BASE].parent[1] \in Parentless
    /\ paths[files[BASE].parent[1]] = "/h"

\* the id get_parent_uid gave to the directory dir it registered: ROOT for
\* "/", an unused normal id otherwise
ParentIdFor(dir, r) ==
    /\ ~r.st.panicked
    /\ r.ret = ROOT <=> dir = "/"
    /\ r.ret \in DOMAIN r.st.paths /\ r.st.paths[r.ret] = dir
    /\ dir # "/" => /\ r.ret.tag = 0
                    /\ r.ret \notin {ROOT, BASE}
                    /\ r.ret \notin DOMAIN files

\* C24: the entry under Uid::ROOT always has parent None and resolves to
\* "/"; get_parent_uid gives Uid::ROOT to the directory it registers exactly
\* when the path of that directory is "/", and a fresh normal id otherwise.
C24_RootSentinel ==
    ~panicked =>
        /\ ROOT \in DOMAIN files =>
              /\ files[ROOT].parent = <<>>
              /\ GetPathByUid(St, ROOT).ret = <<"/">>
              /\ ~GetPathByUid(St, ROOT).st.panicked
        /\ \A uid \in Parentless, dir \in OsDirs :
              (uid \in DOMAIN paths /\ OsChildOf(paths[uid], dir)) =>
                  ParentIdFor(dir, GetParentUid(St, uid))

\* started in /h/a: /h was registered under a normal id and "/" under ROOT
C24_Witness ==
    /\ ~panicked
    /\ ROOT \in DOMAIN files
    /\ BASE \in DOMAIN files
    /\ files[BASE].name = "a"
    /\ files[BASE].parent # <<>>
    /\ files[files[BASE].parent[1]].parent = <<ROOT>>

-----------------------------------------------------------------------------
(* Properties of the nested allocation *)

\* top-level row i still has children that are not shown
HasMoreChildren(i) == nresult.shows[i] < nnums[i]

\* C25: at the end of the allocation no directory is reserved more nested
\* rows than it has displayable children, and of two top-level directories
\* that both still have children not shown, the earlier one is reserved as
\* many rows as the later one or one more.
C25_RoundRobinAllocation ==
    npc = "done" =>
        /\ Len(nresult.shows) = Len(nnums)
        /\ \A i \in 1..Len(nnums) : nresult.shows[i] <= nnums[i]
        /\ \A i \in 1..Len(nnums), j \in 1..Len(nnums) :
              (i < j /\ HasMoreChildren(i) /\ HasMoreChildren(j)) =>
                  /\ nresult.shows[i] >= nresult.shows[j]
                  /\ nresult.shows[i] - nresult.shows[j] <= 1

\* a pass of the loop ran out of rows between two directories
C25_Witness ==
    /\ npc = "done"
    /\ \E i \in 1..Len(nnums), j \in 1..Len(nnums) :
          /\ i < j
          /\ HasMoreChildren(i) /\ HasMoreChildren(j)
          /\ nresult.shows[j] = 1
          /\ nresult.shows[i] = 2

-----------------------------------------------------------------------------
(* Properties of the hex view *)

\* C26: in the hex viewer the byte offset at which reading starts is a
\* multiple of 8 and is at most max(file size, 32) - 32, for every requested
\* offset and file size.
C26_HexStartAligned ==
    hpc = "done" =>
        /\ hex_start % 8 = 0
        /\ hex_start <= Max(hex_size, 32) - 32

\* the last byte of a file of 45 bytes is asked for: reading starts at 13
C26_UnalignedWitness ==
    /\ hpc = "done"
    /\ hex_size = 45
    /\ hex_offset = 44
    /\ hex_start = 13

-----------------------------------------------------------------------------
(* Properties of the expansion to min_width *)

\* the call ended and no shrinking was needed
NaturalWidthFits == lpc = "done" /\ BoundsGiven /\ ~shrunk

\* C27 as stated: if the natural total width does not exceed max_width and
\* min_width <= max_width, the returned total width does not exceed
\* max_width, also after the expansion to min_width.
C27_ExpansionWithinMaxWidthAsStated ==
    NaturalWidthFits => total <= max_width

\* C27: under the same conditions the returned total width does not exceed
\* max_width when no expansion was applied, and lies between min_width + 1
\* and min_width + M after an expansion, M being the number of columns of
\* row 0; so it does not exceed max_width if min_width + M <= max_width.
C27_ExpansionWithinMinWidthPlusColumns ==
    NaturalWidthFits =>
        /\ ~expanded => total <= max_width
        /\ expanded => /\ total > min_width
                       /\ total <= min_width + Len(table[1])
        /\ min_width + Len(table[1]) <= max_width => total <= max_width

\* a table that fitted was expanded beyond max_width
C27_Witness ==
    /\ NaturalWidthFits
    /\ expanded
    /\ min_width = max_width
    /\ total > max_width

-----------------------------------------------------------------------------
(* Properties of the header of the text view *)

\* C28: in the text viewer, for every terminal size main accepts and every
\* file content, the computed table width is at least 16 + 3 * COLUMN_MARGIN,
\* so the width of the path column of the header row,
\* curr_table_width - 16 - COLUMN_MARGIN * 3, never underflows.
C28_HeaderPathWidthNeverUnderflows ==
    lpc = "done" =>
        /\ total >= 16 + 3 * COLUMN_MARGIN
        /\ rpc # "idle" => FileHeaderRow(row_contents[1], total).widths[1] >= 0

\* the table of a file with one line of one character is 20 wide, and the
\* header row is never printed
C28_UnderflowWitness ==
    /\ lpc = "done"
    /\ rpc = "panicked"
    /\ table = TextTable(<<1>>, 0)
    /\ total = 20
    /\ printed = <<>>

-----------------------------------------------------------------------------
(* Properties of the startup *)

\* main registers the current directory and looks it up in this step
StartupStep == spc = "init" /\ spc' = "running"

\* C29: for every existing current directory, the filesystem root "/"
\* included, startup registers an entry under Uid::BASE, so that the lookup
\* get_file_by_uid(Uid::BASE) of main succeeds.
C29_StartupRegistersBase ==
    [][StartupStep => BASE \in DOMAIN files']_vars

\* started in "/": the only entry is an error entry, nothing is under
\* Uid::BASE and the unwrap of the lookup has panicked
C29_RootStartWitness ==
    /\ spc = "running"
    /\ panicked
    /\ BASE \notin DOMAIN files
    /\ Cardinality(DOMAIN files) = 1
    /\ \A uid \in DOMAIN files : uid.tag = 1 /\ files[uid].name = "<<Error>>"
    /\ reads = EmptyMap

-----------------------------------------------------------------------------
(* Properties of the climb to the root *)

\* the number of separators of a path
RECURSIVE Slashes(_)
Slashes(path) ==
    IF path = "" THEN 0
    ELSE (IF Chr(path, Len(path)) = "/" THEN 1 ELSE 0)
         + Slashes(SubSeq(path, 1, Len(path) - 1))

\* the number of components of an absolute path
PathDepth(path) == IF path = "/" THEN 0 ELSE Slashes(path)

\* the path of uid in the store st, or "" if it has none
PathIn(st, uid) ==
    IF GetPathByUid(st, uid).ret = <<>> THEN "" ELSE GetPathByUid(st, uid).ret[1]

\* get_parent_uid, applied `steps` times from uid, goes from a path to its
\* OS parent directory in every step and ends at ROOT
RECURSIVE ClimbsToRoot(_, _, _)
ClimbFrom(child_path, r, steps) ==
    /\ ~r.st.panicked
    /\ r.ret \in DOMAIN r.st.files
    /\ OsChildOf(child_path, PathIn(r.st, r.ret))
    /\ ClimbsToRoot(r.st, r.ret, steps - 1)

ClimbsToRoot(st, uid, steps) ==
    IF steps = 0 THEN uid = ROOT
    ELSE uid # ROOT /\ ClimbFrom(PathIn(st, uid), GetParentUid(st, uid), steps)

\* C30: starting from any registered non-synthetic entry, repeated
\* get_parent_uid reaches the entry with id Uid::ROOT after finitely many
\* steps, one per component of the path, and every step returns an entry
\* whose path is the OS parent directory of the path of the entry before.
C30_ClimbReachesRoot ==
    ~panicked =>
        \A uid \in DOMAIN files :
            ~IsSpecialUid(uid) =>
                ClimbsToRoot(St, uid, PathDepth(PathIn(St, uid)))

\* /h/a/x is registered, three steps below a root that is not registered yet
C30_Witness ==
    /\ ~panicked
    /\ ROOT \notin DOMAIN files
    /\ \E uid \in DOMAIN files :
          /\ ~IsSpecialUid(uid)
          /\ PathIn(St, uid) = "/h/a/x"
          /\ PathDepth(PathIn(St, uid)) = 3
          /\ ClimbsToRoot(St, uid, 3)

====
